---- MODULE Spec2Model ----
(***************************************************************************)
(* Governed mission runtime of sovereign-robotics-ops:                     *)
(*   - the policy evaluator  (app/policies/rules_python.py)                *)
(*   - the hash-linked event chain and its verification                    *)
(*     (app/services/run_service.py, app/services/replay_service.py)       *)
(*   - the per-run control loop, the start handler, the stop handler and   *)
(*     the auto-resume from get_run and from a WebSocket connect           *)
(*     (app/services/run_service.py, app/api/routes_runs.py, routes_ws.py) *)
(*   - AgenticPlanner.propose  (app/services/agentic_planner.py)           *)
(*   - two run loops sharing the AgentRouter of their RunService           *)
(*     (app/services/agent_service.py)                                     *)
(*   - rehydrate_plans and the plan queue of the run loop                  *)
(*     (app/services/run_service.py)                                       *)
(*   - one mission under MissionService, the mission routes and start_run  *)
(*     (app/services/mission_service.py, app/api/routes_missions.py)       *)
(*   - WsHub: subscribers of a run and the broadcasts to them              *)
(*     (app/api/routes_ws.py)                                              *)
(*   - chain_valid of the compliance endpoints                             *)
(*     (app/api/routes_compliance.py, app/services/compliance_report.py)   *)
(*                                                                         *)
(* Units.  Positions and distances are in decimetres (0.1 m), speeds,      *)
(* confidences and risk scores in hundredths.  A Euclidean distance d is   *)
(* carried as d*d, and "d < r" is evaluated as "d*d < r*r".                *)
(***************************************************************************)
EXTENDS Integers, Sequences, FiniteSets, TLC

VARIABLES
    \* ---- policy evaluator harness ----
    polTel,          \* telemetry handed to evaluate_policies
    polProp,         \* proposal handed to evaluate_policies
    polOut,          \* the GovernanceDecision returned, or NoValue
    \* ---- chain verification harness ----
    vcEvents,        \* event list handed to verify_chain
    vcTampered,      \* TRUE once a stored payload was altered
    vcResult,        \* <<result of verify_chain>>, or <<>>
    \* ---- run controller ----
    runStatus,       \* Run.status as persisted ("none" before the run exists)
    runEndedAt,      \* Run.ended_at as persisted: <<>> for None, else <<ts>>
    statusLog,       \* the {kind: status} messages handed to the broadcast
    store,           \* committed Event rows of the run
    pending,         \* rows added to the loop's session, not yet committed
    clock,           \* utc_now()
    loopPc,          \* position of the loop task
    taskLive,        \* run_id in _tasks and the task is not done
    stopFlag,        \* "absent" | "clear" | "set"  (_stop_flags[run_id])
    plans,           \* _plans[run_id] (<<>> when absent)
    tick,            \* number of ticks begun
    telemetry,       \* loop local: telemetry of the current tick
    proposal,        \* loop local: proposal of the current tick
    gov,             \* loop local: gov_decision of the current tick
    planUsed,        \* loop local: plan_wps was non-empty in this tick
    simLog,          \* commands the simulator has received
    govLog,          \* history: what evaluate returned in each tick
    hPc,             \* position of the start handler
    stopCalls,       \* number of stop_run calls made
    liveTasks,       \* number of _run_loop tasks of the run that are not done
    getRunRaised,    \* the last GET /runs/{id} ended in a RuntimeError
    simFails,        \* history: simulator calls of the loop that raised
    \* ---- AgenticPlanner.propose ----
    plPc,            \* "idle" | "await_llm" | "returned" | "raised"
    plAttempt,       \* replan_attempt
    plTel,           \* telemetry argument
    plDenials,       \* memory.denial_count(5) during the call
    plFeedback,      \* denial_feedback (<<>> is None)
    plThoughts,      \* all_thoughts
    plModel,         \* model_used
    plResult,        \* <<proposal returned>>, or <<>>
    plHistory,       \* history: proposal, pre-check decision and steps of each attempt
    \* ---- two run loops sharing the RunService's AgentRouter ----
    agPc,            \* per run: position of its loop
    agTick,          \* per run: ticks begun
    agLocal,         \* per run: proposal and decision of the current tick
    agMemory,        \* AgenticPlanner.memory.entries
    agLastChain,     \* AgentRouter._last_thought_chain
    agConsulted,     \* history, per run: memory entries its last propose read
    agSent,          \* history: agent_reasoning messages broadcast
    \* ---- rehydrate_plans and the plan queue of the run loop ----
    rhRuns,          \* persisted runs: status and PLAN events of each
    rhPlans,         \* RunService._plans (<<>> where a run has no entry)
    rhPc,            \* "boot" before rehydrate_plans ran, "ready" after
    rhSeen,          \* <<origin and proposal last handed to gov.evaluate>>, or <<>>
    rhTick,          \* per run: the tick waiting for send_command, or NoValue
    \* ---- one mission: MissionService, the mission routes, start_run ----
    mStatus,         \* Mission.status ("none" while the row does not exist)
    mTitle,          \* Mission.title
    mGoal,           \* json.loads(Mission.goal_json)
    mAudit,          \* MissionAudit rows of the mission, oldest first
    mResp,           \* response of the last request: operation and status code
    mOps,            \* number of requests and loop completions so far
    mRunLive,        \* a run of the mission is running
    \* ---- WsHub: the subscribers of one run and the broadcasts to them ----
    hubClients,      \* WsHub._clients[run_id]
    sinkState,       \* per socket: "new" | "open" | "stalled" | "closed"
    bcPc,            \* per producer: "idle" | "sending"
    bcMsg,           \* per producer: number of the message being broadcast
    bcRest,          \* per producer: clients of the snapshot not yet sent to
    bcDead,          \* per producer: dead
    hubLog,          \* history, per message: snapshot, broadcasts ended before it began
    hubGot,          \* history, per socket: messages delivered to it
    hubRaised,       \* history, per socket: messages whose send_text raised
    hubEnded,        \* history: messages whose broadcast returned
    \* ---- compliance endpoints over the stored chain ----
    crResult,        \* <<events read, chain_valid answered>> of the last call, or <<>>
    \* ---- AgentMemory under record_outcome ----
    memEntries,      \* AgentMemory.entries
    memLog,          \* every outcome recorded so far, in recording order
    memCalls,        \* record_outcome calls made by the harness
    \* ---- execute_plan ----
    epWps,           \* body.waypoints
    epIdx,           \* idx of the for loop
    epPc,            \* where the handler is
    epStep,          \* step of the current waypoint, or NoValue
    epSteps,         \* steps
    epStatus,        \* overall_status
    epSent           \* the send_command calls made, in order

polVars == <<polTel, polProp, polOut>>
vcVars == <<vcEvents, vcTampered, vcResult>>
runVars == <<runStatus, runEndedAt, statusLog, store, pending, clock, loopPc, taskLive, stopFlag,
             plans, tick, telemetry, proposal, gov, planUsed, simLog, govLog,
             hPc, stopCalls, liveTasks, getRunRaised,
             simFails>>
plVars == <<plPc, plAttempt, plTel, plDenials, plFeedback, plThoughts, plModel,
            plResult, plHistory>>
agVars == <<agPc, agTick, agLocal, agMemory, agLastChain, agConsulted, agSent>>
rhVars == <<rhRuns, rhPlans, rhPc, rhSeen, rhTick>>
msVars == <<mStatus, mTitle, mGoal, mAudit, mResp, mOps, mRunLive>>
hubVars == <<hubClients, sinkState, bcPc, bcMsg, bcRest, bcDead, hubLog, hubGot,
             hubRaised, hubEnded>>
crVars == <<crResult>>
memVars == <<memEntries, memLog, memCalls>>
epVars == <<epWps, epIdx, epPc, epStep, epSteps, epStatus, epSent>>
extVars == <<rhVars, msVars, hubVars, crVars, memVars, epVars>>
vars == <<polVars, vcVars, runVars, plVars, agVars, extVars>>

coreVars == <<polVars, vcVars, runVars, plVars, agVars>>

\* the same without the chain verification harness
coreRest == <<polVars, runVars, plVars, agVars>>

\* what no step of the plan-queue harness touches
outsideRh == <<coreVars, msVars, hubVars, crVars, memVars, epVars>>

\* what no step of the mission harness touches
outsideMs == <<coreVars, rhVars, hubVars, crVars, memVars, epVars>>

\* what no step of the broadcast harness touches
outsideHub == <<coreVars, rhVars, msVars, crVars, memVars, epVars>>

\* what no step of the agent memory harness touches
outsideMem == <<coreVars, rhVars, msVars, hubVars, crVars, epVars>>

\* what no step of the execute_plan harness touches
outsideEp == <<coreVars, rhVars, msVars, hubVars, crVars, memVars>>

\* what no step of the run controller touches
outsideRun == <<polVars, vcVars, plVars, agVars, extVars>>

NoValue == [none |-> TRUE]

Max(a, b) == IF a >= b THEN a ELSE b
Min(a, b) == IF a <= b THEN a ELSE b

(***************************************************************************)
(* Policy evaluator                                                        *)
(***************************************************************************)
GEOFENCE == [min_x |-> 0, max_x |-> 400, min_y |-> 0, max_y |-> 250]
ZONE_SPEED_LIMITS == [aisle |-> 50, corridor |-> 70, loading_bay |-> 40]
DEFAULT_ZONE_LIMIT == 50
MIN_OBSTACLE_CLEARANCE_M == 5
MIN_HUMAN_CONF == 65
MAX_SPEED_NEAR_HUMAN == 40
MIN_CONF_FOR_MOVE == 55
HUMAN_SLOW_RADIUS_M == 30
HUMAN_STOP_RADIUS_M == 10
REVIEW_RISK_THRESHOLD == 75
FAR_AWAY == 9990

\* dict.get(key, default)
Get(d, key, default) == IF key \in DOMAIN d THEN d[key] ELSE default

EmptyParams == [k \in {} |-> 0]

ZoneLimit(zone) == Get(ZONE_SPEED_LIMITS, zone, DEFAULT_ZONE_LIMIT)

InGeofence(px, py) ==
    /\ GEOFENCE.min_x <= px /\ px <= GEOFENCE.max_x
    /\ GEOFENCE.min_y <= py /\ py <= GEOFENCE.max_y

\* the loop over walking_humans: nearest worker as [d2, conf]
RECURSIVE NearestWorker(_, _, _, _)
NearestWorker(whs, x, y, best) ==
    IF whs = <<>> THEN best
    ELSE LET wh == Head(whs)
             d2 == (wh.x - x) * (wh.x - x) + (wh.y - y) * (wh.y - y)
         IN NearestWorker(Tail(whs), x, y,
                IF d2 < best.d2 THEN [d2 |-> d2, conf |-> wh.conf] ELSE best)

MaxSpeedOf(p) ==
    IF p.intent = "MOVE_TO" THEN Get(p.params, "max_speed", 0) ELSE 0

Acc0 == [hits |-> <<>>, risk |-> 0, state |-> "SAFE"]

InSeq(e, s) == \E i \in 1..Len(s) : s[i] = e

Hit(acc, key, risk, state) ==
    [hits |-> Append(acc.hits, key), risk |-> Max(acc.risk, risk), state |-> state]

SlowIfSafe(acc) == IF acc.state = "SAFE" THEN "SLOW" ELSE acc.state

RuleGeofenceCurrent(acc, t) ==
    IF ~InGeofence(t.x, t.y) THEN Hit(acc, "GEOFENCE_01", 95, "STOP") ELSE acc

RuleGeofenceDest(acc, t, p) ==
    IF p.intent = "MOVE_TO"
       /\ ~InGeofence(Get(p.params, "x", t.x), Get(p.params, "y", t.y))
    THEN [hits |-> IF InSeq("GEOFENCE_01", acc.hits) THEN acc.hits
                   ELSE Append(acc.hits, "GEOFENCE_01"),
          risk |-> Max(acc.risk, 95), state |-> "STOP"]
    ELSE acc

RuleObstacle(acc, t, p) ==
    IF p.intent = "MOVE_TO" /\ t.nearest_obstacle_m < MIN_OBSTACLE_CLEARANCE_M
    THEN Hit(acc, "OBSTACLE_CLEARANCE_03", 90, "REPLAN")
    ELSE acc

RuleProximity(acc, t, p) ==
    LET nw == NearestWorker(t.walking_humans, t.x, t.y,
                            [d2 |-> FAR_AWAY * FAR_AWAY, conf |-> 0])
        hd2 == t.human_distance_m * t.human_distance_m
        use_worker == nw.d2 < hd2
        prox_d2 == IF use_worker THEN nw.d2 ELSE hd2
        policy_key == IF use_worker THEN "WORKER_PROXIMITY_06" ELSE "HUMAN_PROXIMITY_02"
    IN IF p.intent = "MOVE_TO" /\ prox_d2 < HUMAN_STOP_RADIUS_M * HUMAN_STOP_RADIUS_M
       THEN Hit(acc, policy_key, 95, "STOP")
       ELSE IF p.intent = "MOVE_TO" /\ prox_d2 < HUMAN_SLOW_RADIUS_M * HUMAN_SLOW_RADIUS_M
       THEN Hit(acc, policy_key, 80, SlowIfSafe(acc))
       ELSE acc

RuleUncertainty_mut_lowrisk(acc, t, p) ==
    IF p.intent = "MOVE_TO" /\ t.human_detected /\ t.human_conf < MIN_HUMAN_CONF
    THEN Hit(acc, "UNCERTAINTY_04", 70, SlowIfSafe(acc))
    ELSE acc

RuleUncertainty(acc, t, p) ==
    IF p.intent = "MOVE_TO" /\ t.human_detected /\ t.human_conf < MIN_HUMAN_CONF
    THEN Hit(acc, "UNCERTAINTY_04", 80, SlowIfSafe(acc))
    ELSE acc

RuleSafeSpeed(acc, t, p) ==
    IF p.intent = "MOVE_TO" /\ MaxSpeedOf(p) > ZoneLimit(t.zone)
    THEN Hit(acc, "SAFE_SPEED_01", 85, SlowIfSafe(acc))
    ELSE acc

RuleHumanClearance(acc, t, p) ==
    IF p.intent = "MOVE_TO" /\ t.human_detected /\ t.human_conf >= MIN_HUMAN_CONF
       /\ MaxSpeedOf(p) > MAX_SPEED_NEAR_HUMAN
    THEN [hits |-> IF InSeq("HUMAN_PROXIMITY_02", acc.hits) THEN acc.hits
                   ELSE Append(acc.hits, "HUMAN_CLEARANCE_02"),
          risk |-> Max(acc.risk, 88), state |-> SlowIfSafe(acc)]
    ELSE acc

RuleMinConf_mut_undetected(acc, t, p) ==
    IF p.intent = "MOVE_TO" /\ t.human_conf < MIN_CONF_FOR_MOVE
    THEN [acc EXCEPT !.risk = Max(@, 70)]
    ELSE acc

RuleMinConf(acc, t, p) ==
    IF p.intent = "MOVE_TO" /\ t.human_detected /\ t.human_conf < MIN_CONF_FOR_MOVE
    THEN [acc EXCEPT !.risk = Max(@, 70)]
    ELSE acc

RuleHITL(acc) ==
    IF acc.risk >= REVIEW_RISK_THRESHOLD /\ acc.hits = <<>>
    THEN [acc EXCEPT !.hits = Append(@, "HITL_05")]
    ELSE acc

\* all rules, in source order
ApplyRules(t, p) ==
    RuleHITL(
     RuleMinConf(
      RuleHumanClearance(
       RuleSafeSpeed(
        RuleUncertainty(
         RuleProximity(
          RuleObstacle(
           RuleGeofenceDest(
            RuleGeofenceCurrent(Acc0, t), t, p), t, p), t, p), t, p), t, p), t, p), t, p))

DecideMutReviewOnly(acc) ==
    IF acc.hits # <<>>
    THEN [decision |-> IF acc.risk >= REVIEW_RISK_THRESHOLD THEN "NEEDS_REVIEW" ELSE "DENIED",
          policy_hits |-> acc.hits, risk_score |-> acc.risk, policy_state |-> acc.state]
    ELSE [decision |-> "APPROVED", policy_hits |-> <<>>,
          risk_score |-> acc.risk, policy_state |-> "SAFE"]

\* "Decision logic"
Decide(acc) ==
    IF acc.hits # <<>>
    THEN IF acc.risk >= REVIEW_RISK_THRESHOLD /\ ~InSeq("GEOFENCE_01", acc.hits)
         THEN [decision |-> "NEEDS_REVIEW", policy_hits |-> acc.hits,
               risk_score |-> acc.risk, policy_state |-> acc.state]
         ELSE [decision |-> "DENIED", policy_hits |-> acc.hits,
               risk_score |-> acc.risk, policy_state |-> acc.state]
    ELSE [decision |-> "APPROVED", policy_hits |-> <<>>,
          risk_score |-> acc.risk, policy_state |-> "SAFE"]

evaluate_policies(t, p) == Decide(ApplyRules(t, p))

(***************************************************************************)
(* Policy evaluator harness: the inputs are drawn in PolicyInit and the    *)
(* evaluator is applied once by PolicyEvaluate.                            *)
(***************************************************************************)
MaxWorkers == 1

PolWorkers == {[x |-> 55, y |-> 50, conf |-> 90], [x |-> 70, y |-> 50, conf |-> 50]}

RECURSIVE SeqsUpTo(_, _)
SeqsUpTo(S, n) ==
    IF n = 0 THEN {<<>>}
    ELSE LET shorter == SeqsUpTo(S, n - 1)
         IN shorter \cup {Append(q, e) : q \in shorter, e \in S}

PolTelemetry ==
    [x : {-10, 50}, y : {50, 260},
     zone : {"aisle", "corridor", "loading_bay", "dock"},
     nearest_obstacle_m : {4, 5},
     human_detected : BOOLEAN,
     human_conf : {50, 60, 90},
     human_distance_m : {9, 10, 29, 30, FAR_AWAY},
     walking_humans : SeqsUpTo(PolWorkers, MaxWorkers)]

PolProposals ==
    {[intent |-> "STOP", params |-> EmptyParams],
     [intent |-> "WAIT", params |-> EmptyParams],
     [intent |-> "MOVE_TO", params |-> EmptyParams]}
    \cup {[intent |-> "MOVE_TO", params |-> [x |-> dx, y |-> 60, max_speed |-> sp]] :
            dx \in {60, 500}, sp \in {40, 41, 50, 71, 80}}

RunIdle ==
    /\ runStatus = "none" /\ store = {} /\ pending = <<>> /\ clock = 1
    /\ runEndedAt = <<>> /\ statusLog = <<>>
    /\ loopPc = "none" /\ taskLive = FALSE /\ stopFlag = "absent"
    /\ plans = <<>> /\ tick = 0
    /\ telemetry = NoValue /\ proposal = NoValue /\ gov = NoValue
    /\ planUsed = FALSE /\ simLog = <<>> /\ govLog = <<>>
    /\ hPc = "idle" /\ stopCalls = 0
    /\ liveTasks = 0 /\ getRunRaised = FALSE /\ simFails = 0

PlIdle ==
    /\ plPc = "idle" /\ plAttempt = 0 /\ plTel = NoValue /\ plDenials = 0
    /\ plFeedback = <<>> /\ plThoughts = <<>> /\ plModel = "unknown"
    /\ plResult = <<>> /\ plHistory = <<>>

AgRuns == {"run_1", "run_2"}

AgIdle ==
    /\ agPc = [r \in AgRuns |-> "top"]
    /\ agTick = [r \in AgRuns |-> 0]
    /\ agLocal = [r \in AgRuns |-> NoValue]
    /\ agMemory = <<>> /\ agLastChain = <<>>
    /\ agConsulted = [r \in AgRuns |-> <<>>]
    /\ agSent = <<>>

RhRunIds == {"run_1", "run_2"}

RhIdle ==
    /\ rhRuns = [r \in RhRunIds |-> [status |-> "none", events |-> <<>>]]
    /\ rhPlans = [r \in RhRunIds |-> <<>>]
    /\ rhPc = "boot"
    /\ rhSeen = <<>>
    /\ rhTick = [r \in RhRunIds |-> NoValue]

MsIdle ==
    /\ mStatus = "none"
    /\ mTitle = ""
    /\ mGoal = NoValue
    /\ mAudit = <<>>
    /\ mResp = NoValue
    /\ mOps = 0
    /\ mRunLive = FALSE

Sinks == {"ws_1", "ws_2"}

\* who awaits hub.broadcast: the run loop and the stop_run handler
Producers == {"loop", "stop"}

HubIdle ==
    /\ hubClients = {}
    /\ sinkState = [s \in Sinks |-> "new"]
    /\ bcPc = [p \in Producers |-> "idle"]
    /\ bcMsg = [p \in Producers |-> 0]
    /\ bcRest = [p \in Producers |-> <<>>]
    /\ bcDead = [p \in Producers |-> {}]
    /\ hubLog = <<>>
    /\ hubGot = [s \in Sinks |-> {}]
    /\ hubRaised = [s \in Sinks |-> {}]
    /\ hubEnded = {}

CrIdle == crResult = <<>>

MemIdle == memEntries = <<>> /\ memLog = <<>> /\ memCalls = 0

EpIdle ==
    /\ epWps = <<>> /\ epIdx = 0 /\ epPc = "idle" /\ epStep = NoValue
    /\ epSteps = <<>> /\ epStatus = "completed" /\ epSent = <<>>

ExtIdle == RhIdle /\ MsIdle /\ HubIdle /\ CrIdle /\ MemIdle /\ EpIdle

PolIdle == polTel = NoValue /\ polProp = NoValue /\ polOut = NoValue

VcIdle == vcEvents = <<>> /\ vcTampered = FALSE /\ vcResult = <<>>

CoreIdle == PolIdle /\ VcIdle /\ RunIdle /\ PlIdle /\ AgIdle

PolicyInit ==
    /\ polTel \in PolTelemetry
    /\ polProp \in PolProposals
    /\ polOut = NoValue
    /\ VcIdle /\ RunIdle /\ PlIdle /\ AgIdle /\ ExtIdle

PolicyEvaluate ==
    /\ polOut = NoValue
    /\ polOut' = evaluate_policies(polTel, polProp)
    /\ UNCHANGED <<polTel, polProp, vcVars, runVars, extVars, plVars, agVars>>

PolicyNext == PolicyEvaluate

SpecPolicy == PolicyInit /\ [][PolicyNext]_vars

\* ---- trigger conditions of the rules, read off the inputs ----
DestOf(t, p) == [x |-> Get(p.params, "x", t.x), y |-> Get(p.params, "y", t.y)]

ProxD2(t) ==
    Min(NearestWorker(t.walking_humans, t.x, t.y,
                      [d2 |-> FAR_AWAY * FAR_AWAY, conf |-> 0]).d2,
        t.human_distance_m * t.human_distance_m)

TrigGeofence(t, p) ==
    \/ ~InGeofence(t.x, t.y)
    \/ p.intent = "MOVE_TO" /\ ~InGeofence(DestOf(t, p).x, DestOf(t, p).y)

TrigObstacle(t, p) == p.intent = "MOVE_TO" /\ t.nearest_obstacle_m < 5

TrigHumanStop(t, p) == p.intent = "MOVE_TO" /\ ProxD2(t) < 100

TrigSlowRules(t, p) ==
    /\ p.intent = "MOVE_TO"
    /\ \/ ProxD2(t) < 900
       \/ t.human_detected /\ t.human_conf < 65
       \/ MaxSpeedOf(p) > ZoneLimit(t.zone)
       \/ t.human_detected /\ t.human_conf >= 65 /\ MaxSpeedOf(p) > 40

NoRuleFired(t, p) ==
    ~(TrigGeofence(t, p) \/ TrigObstacle(t, p) \/ TrigHumanStop(t, p) \/ TrigSlowRules(t, p))

MostRestrictiveState(t, p) ==
    IF TrigGeofence(t, p) \/ TrigHumanStop(t, p) THEN "STOP"
    ELSE IF TrigObstacle(t, p) THEN "REPLAN"
    ELSE IF TrigSlowRules(t, p) THEN "SLOW"
    ELSE "SAFE"

\* C3: evaluate_policies returns APPROVED for every STOP or WAIT proposal,
\* whatever the telemetry reports.
C3_StopWaitAlwaysApproved ==
    (polOut # NoValue /\ polProp.intent \in {"STOP", "WAIT"})
        => polOut.decision = "APPROVED"

\* C4: the decision is APPROVED exactly when no rule fired (the hit list is
\* empty); with at least one hit it is NEEDS_REVIEW when risk_score >= 0.75
\* and GEOFENCE_01 is not among the hits, and DENIED otherwise.
C4_DecisionReduction ==
    polOut # NoValue =>
        /\ (polOut.decision = "APPROVED") <=> NoRuleFired(polTel, polProp)
        /\ (polOut.decision = "APPROVED") <=> (polOut.policy_hits = <<>>)
        /\ ~NoRuleFired(polTel, polProp) =>
              polOut.decision =
                 IF polOut.risk_score >= 75 /\ ~InSeq("GEOFENCE_01", polOut.policy_hits)
                 THEN "NEEDS_REVIEW" ELSE "DENIED"

C4_Witness ==
    /\ polOut # NoValue
    /\ polOut.decision = "DENIED"
    /\ Len(polOut.policy_hits) >= 3
    /\ polOut.risk_score >= 75

\* C5: the policy_state returned is the most restrictive of the states of
\* the rules that fired, under STOP > REPLAN > SLOW > SAFE.
C5_MostRestrictiveState ==
    polOut # NoValue => polOut.policy_state = MostRestrictiveState(polTel, polProp)

\* C35: the decision is DENIED exactly when GEOFENCE_01 is among the hits;
\* a decision with hits that do not include GEOFENCE_01 is NEEDS_REVIEW,
\* its risk_score being at least 0.75.
C35_DeniedIffGeofence ==
    polOut # NoValue =>
        /\ (polOut.decision = "DENIED") <=> InSeq("GEOFENCE_01", polOut.policy_hits)
        /\ (polOut.policy_hits # <<>> /\ ~InSeq("GEOFENCE_01", polOut.policy_hits))
              => (polOut.decision = "NEEDS_REVIEW"
                  /\ polOut.risk_score >= REVIEW_RISK_THRESHOLD)

\* a single low-confidence hit, the rule with the lowest risk of all
C35_Witness ==
    /\ polOut # NoValue
    /\ polOut.policy_hits = <<"UNCERTAINTY_04">>
    /\ polOut.risk_score = 80
    /\ polOut.decision = "NEEDS_REVIEW"

\* C36: an APPROVED decision has risk_score 0 and policy_state SAFE, and
\* HITL_05 is in the hits of no decision.
C36_ApprovedIsRiskFree ==
    polOut # NoValue =>
        /\ polOut.decision = "APPROVED"
              => (polOut.risk_score = 0 /\ polOut.policy_state = "SAFE")
        /\ ~InSeq("HITL_05", polOut.policy_hits)

\* an approved move with a confidently detected human in view
C36_Witness ==
    /\ polOut # NoValue
    /\ polOut.decision = "APPROVED"
    /\ polProp.intent = "MOVE_TO"
    /\ polTel.human_detected
    /\ MaxSpeedOf(polProp) = MAX_SPEED_NEAR_HUMAN

(***************************************************************************)
(* Event chain                                                             *)
(***************************************************************************)
RunId == "run_1"

\* "0" * 64, as a digest value
ZeroHash == <<"0000000000000000000000000000000000000000000000000000000000000000">>

\* SHA-256 over the canonical JSON of obj: an injective digest of the value
sha256_canonical(obj) == <<"sha256:", obj>>

utc_now(c) == c

\* db.query(Event).filter(run_id).order_by(ts.desc()).first() over the rows
\* the database holds
LastByTs(rows) ==
    IF rows = {} THEN NoValue
    ELSE CHOOSE e \in rows : \A o \in rows : o.ts <= e.ts

\* RunService._append_event: the row that is db.add()ed.  `rows` is what the
\* query sees: the committed rows (the session does not autoflush).
NewEventRow(rows, etype, payload, now, tk) ==
    LET prev == LastByTs(rows)
        prev_hash == IF prev # NoValue THEN prev.hash ELSE ZeroHash
        evt == [run_id |-> RunId, ts |-> now, type |-> etype,
                payload |-> payload, prev_hash |-> prev_hash]
    IN [ts |-> now, type |-> etype, payload |-> payload,
        hash |-> sha256_canonical(evt), prev_hash |-> prev_hash, tick |-> tk]

\* .order_by(Event.ts.asc()).all()
RECURSIVE EventsAsc(_)
EventsAsc(rows) ==
    IF rows = {} THEN <<>>
    ELSE LET first == CHOOSE e \in rows : \A o \in rows : e.ts <= o.ts
         IN <<first>> \o EventsAsc(rows \ {first})

SeqToSet(q) == {q[i] : i \in 1..Len(q)}

(***************************************************************************)
(* Run controller                                                          *)
(***************************************************************************)
MaxTicks == 2
MaxStopCalls == 1

Goal == [x |-> 100, y |-> 50]

LoopTelemetry ==
    {[x |-> 50, y |-> 50, zone |-> "aisle", nearest_obstacle_m |-> 50,
      human_detected |-> FALSE, human_conf |-> 0, human_distance_m |-> FAR_AWAY,
      walking_humans |-> <<>>],
     [x |-> -50, y |-> 50, zone |-> "aisle", nearest_obstacle_m |-> 50,
      human_detected |-> FALSE, human_conf |-> 0, human_distance_m |-> FAR_AWAY,
      walking_humans |-> <<>>],
     [x |-> 50, y |-> 50, zone |-> "corridor", nearest_obstacle_m |-> 50,
      human_detected |-> TRUE, human_conf |-> 90, human_distance_m |-> 20,
      walking_humans |-> <<>>]}

\* what AgentRouter.propose may return (deterministic agent or a planner)
AgentProposals ==
    {[intent |-> "STOP", params |-> EmptyParams],
     [intent |-> "WAIT", params |-> EmptyParams],
     [intent |-> "MOVE_TO", params |-> [x |-> Goal.x, y |-> Goal.y, max_speed |-> 80]]}

\* proposal built from the head of the plan queue
PlanProposal(wp) ==
    [intent |-> "MOVE_TO",
     params |-> [x |-> wp.x, y |-> wp.y, max_speed |-> Get(wp, "max_speed", 50)]]

ClampToZone_mut_noclamp(p, t) == p

\* "Clamp planned max_speed to zone limits"
ClampToZone(p, t) ==
    IF p.intent = "MOVE_TO"
    THEN [p EXCEPT !.params =
            [k \in DOMAIN p.params \cup {"max_speed"} |->
                IF k = "max_speed"
                THEN Min(Get(p.params, "max_speed", 50), ZoneLimit(t.zone))
                ELSE p.params[k]]]
    ELSE p

ShouldExecute_mut_review(g) == g.decision \in {"APPROVED", "NEEDS_REVIEW"}

\* "if gov_decision.decision == 'APPROVED'"
ShouldExecute(g) == g.decision = "APPROVED"

DecisionPayload(t, p, g) ==
    [context |-> [telemetry |-> t, mission_goal |-> Goal],
     proposal |-> p, governance |-> g]

ExecutionPayload(p) ==
    [command |-> [intent |-> p.intent, params |-> p.params],
     result |-> [ok |-> TRUE]]

PlanPayload == [note |-> "Initial LLM plan generated at start()"]

\* the persisted fields of the run and the log of status messages, for the
\* steps that leave them alone
runKept == <<runStatus, runEndedAt, statusLog>>

\* {"kind": "status", "data": {"status": ...}} handed to _ws_broadcast, with
\* the status the run's row holds at that moment
StatusMessage(sent, persisted) == [status |-> sent, persisted |-> persisted]

\* _launch_loop
LaunchLoop ==
    IF taskLive
    THEN UNCHANGED <<taskLive, liveTasks, stopFlag, loopPc>>
    ELSE /\ taskLive' = TRUE
         /\ liveTasks' = liveTasks + 1
         /\ stopFlag' = "clear"
         /\ loopPc' = "top"

\* the end of _run_loop: pop the task and the stop flag
ExitLoop ==
    /\ loopPc' = "done"
    /\ taskLive' = FALSE
    /\ liveTasks' = liveTasks - 1
    /\ stopFlag' = "absent"

\* the loop task goes on: its entry in _tasks stays live
TaskStays == UNCHANGED <<taskLive, liveTasks>>

\* "except Exception" of _run_loop, up to its broadcast: the tick's session is
\* closed (its pending rows are dropped) and a new session marks the run
\* failed.  When that session raises too (dbUp = FALSE) the exception leaves
\* the coroutine: the task is done, the cleanup after the try statement is
\* not reached and the persisted status is left as it was.  The store is
\* taken to be down in the handler only when the tick's own commit failed.
CrashHandler(dbUp) ==
    /\ pending' = <<>>
    /\ IF dbUp
       THEN /\ runStatus' = IF runStatus # "none" THEN "failed" ELSE runStatus
            /\ runEndedAt' = IF runStatus # "none" THEN <<utc_now(clock)>> ELSE runEndedAt
            /\ statusLog' = Append(statusLog, StatusMessage("failed", runStatus'))
            /\ loopPc' = "await_failed_broadcast"
            /\ TaskStays
       ELSE /\ loopPc' = "done"
            /\ taskLive' = FALSE
            /\ liveTasks' = liveTasks - 1
            /\ UNCHANGED runKept

\* start_run handler of routes_runs, up to its first await
StartRun ==
    /\ hPc = "idle"
    /\ runStatus = "none"
    /\ runStatus' = "running"
    /\ runEndedAt' = <<>>
    /\ LaunchLoop
    /\ hPc' = "await_plan"
    /\ UNCHANGED <<outsideRun, getRunRaised, simFails, store, pending, clock, plans, tick,
                   telemetry, statusLog,
                   proposal, gov, planUsed, simLog, govLog, stopCalls>>

\* start_run handler after get_telemetry and planner.propose returned:
\* append the PLAN event and commit
StartAppendPlan ==
    /\ hPc = "await_plan"
    /\ store' = store \cup {NewEventRow(store, "PLAN", PlanPayload, utc_now(clock), 0)}
    /\ clock' = clock + 1
    /\ hPc' = "done"
    /\ UNCHANGED <<outsideRun, getRunRaised, simFails, runKept, pending, loopPc, taskLive,
                   liveTasks, stopFlag,
                   plans, tick, telemetry, proposal, gov, planUsed, simLog, govLog,
                   stopCalls>>

\* start_run handler: the planner or the append raised; db.rollback()
StartPlanFails ==
    /\ hPc = "await_plan"
    /\ hPc' = "done"
    /\ UNCHANGED <<outsideRun, getRunRaised, simFails, runKept, store, pending, clock,
                   loopPc, taskLive, liveTasks,
                   stopFlag, plans, tick, telemetry, proposal, gov, planUsed, simLog,
                   govLog, stopCalls>>

MarkStopped_mut_keepend(status, ended_at, now) ==
    IF status = "running"
    THEN [status |-> "stopped", ended_at |-> ended_at]
    ELSE [status |-> status, ended_at |-> ended_at]

\* stop_run: "if run and run.status == 'running'" the row is updated
MarkStopped(status, ended_at, now) ==
    IF status = "running"
    THEN [status |-> "stopped", ended_at |-> <<now>>]
    ELSE [status |-> status, ended_at |-> ended_at]

\* RunService.stop_run
StopRun ==
    /\ runStatus # "none"
    /\ stopCalls < MaxStopCalls
    /\ stopCalls' = stopCalls + 1
    /\ stopFlag' = IF stopFlag = "absent" THEN "absent" ELSE "set"
    /\ runStatus' = MarkStopped(runStatus, runEndedAt, utc_now(clock)).status
    /\ runEndedAt' = MarkStopped(runStatus, runEndedAt, utc_now(clock)).ended_at
    /\ statusLog' = Append(statusLog, StatusMessage("stopped", runStatus'))
    /\ UNCHANGED <<outsideRun, getRunRaised, simFails, store, pending, clock, loopPc,
                   taskLive, liveTasks, plans,
                   tick, telemetry, proposal, gov, planUsed, simLog, govLog, hPc>>

\* top of the while loop: stop flag, session, run status
LoopTop ==
    /\ loopPc = "top"
    /\ IF stopFlag = "set" \/ runStatus # "running"
       THEN /\ ExitLoop
            /\ UNCHANGED tick
       ELSE /\ tick < MaxTicks
            /\ tick' = tick + 1
            /\ loopPc' = "await_telemetry"
            /\ UNCHANGED <<taskLive, liveTasks, stopFlag>>
    /\ UNCHANGED <<outsideRun, getRunRaised, simFails, runKept, store, pending, clock,
                   plans, telemetry,
                   proposal, gov, planUsed, simLog, govLog, hPc, stopCalls>>

\* lines 241-290 for a proposal p0: clamp, evaluate, append DECISION and, when
\* the proposal is not executed, record the outcome and commit
Govern(t, p0, fromPlan, commitOk) ==
    LET p == ClampToZone(p0, t)
        g == evaluate_policies(t, p)
        row == NewEventRow(store, "DECISION", DecisionPayload(t, p, g), utc_now(clock), tick)
    IN /\ telemetry' = t
       /\ proposal' = p
       /\ gov' = g
       /\ planUsed' = fromPlan
       /\ govLog' = Append(govLog, [tick |-> tick, proposal |-> p, gov |-> g])
       /\ clock' = clock + 1
       /\ IF ShouldExecute(g)
          THEN /\ pending' = Append(pending, row)
               /\ loopPc' = "await_send"
               /\ TaskStays
               /\ UNCHANGED <<store, runKept>>
          ELSE IF commitOk
          THEN /\ store' = store \cup SeqToSet(pending) \cup {row}
               /\ pending' = <<>>
               /\ loopPc' = "await_broadcast"
               /\ TaskStays
               /\ UNCHANGED runKept
          ELSE /\ \E dbUp \in BOOLEAN : CrashHandler(dbUp)
               /\ UNCHANGED store

\* get_telemetry / get_world returned; with a plan queue the head waypoint is
\* the proposal, otherwise the agent is asked
GetTelemetry ==
    /\ loopPc = "await_telemetry"
    /\ \E t \in LoopTelemetry, commitOk \in BOOLEAN :
          IF plans # <<>>
          THEN Govern(t, PlanProposal(Head(plans)), TRUE, commitOk)
          ELSE /\ commitOk
               /\ telemetry' = t
               /\ planUsed' = FALSE
               /\ loopPc' = "await_propose"
               /\ TaskStays
               /\ UNCHANGED <<runKept, store, pending, clock, proposal, gov, govLog>>
    /\ UNCHANGED <<outsideRun, getRunRaised, simFails, stopFlag, plans, tick, simLog, hPc,
                   stopCalls>>

\* get_telemetry raised
GetTelemetryFails ==
    /\ loopPc = "await_telemetry"
    /\ CrashHandler(TRUE)
    /\ simFails' = simFails + 1
    /\ UNCHANGED <<outsideRun, getRunRaised, store, clock, stopFlag, plans, tick,
                   telemetry, proposal, gov, planUsed, simLog, govLog, hPc, stopCalls>>

\* agent.propose returned
AgentPropose ==
    /\ loopPc = "await_propose"
    /\ \E p \in AgentProposals, commitOk \in BOOLEAN :
          Govern(telemetry, p, FALSE, commitOk)
    /\ UNCHANGED <<outsideRun, getRunRaised, simFails, stopFlag, plans, tick, simLog, hPc,
                   stopCalls>>

SendCommand_mut_noexec ==
    /\ loopPc = "await_send"
    /\ \E commitOk \in BOOLEAN :
         LET row == NewEventRow(store, "EXECUTION", ExecutionPayload(proposal),
                                utc_now(clock), tick)
         IN /\ simLog' = Append(simLog, [tick |-> tick, intent |-> proposal.intent,
                                         params |-> proposal.params])
            /\ clock' = clock + 1
            /\ plans' = IF planUsed /\ plans # <<>> THEN Tail(plans) ELSE plans
            /\ IF commitOk
               THEN /\ store' = store \cup SeqToSet(pending)
                    /\ pending' = <<>>
                    /\ loopPc' = "await_broadcast"
                    /\ TaskStays
                    /\ UNCHANGED runKept
               ELSE /\ \E dbUp \in BOOLEAN : CrashHandler(dbUp)
                    /\ UNCHANGED store
    /\ UNCHANGED <<outsideRun, getRunRaised, simFails, stopFlag, tick, telemetry, proposal, gov,
                   planUsed, govLog, hPc, stopCalls>>

\* send_command returned: append EXECUTION, pop the plan head, record the
\* outcome, commit
SendCommand ==
    /\ loopPc = "await_send"
    /\ \E commitOk \in BOOLEAN :
         LET row == NewEventRow(store, "EXECUTION", ExecutionPayload(proposal),
                                utc_now(clock), tick)
         IN /\ simLog' = Append(simLog, [tick |-> tick, intent |-> proposal.intent,
                                         params |-> proposal.params])
            /\ clock' = clock + 1
            /\ plans' = IF planUsed /\ plans # <<>> THEN Tail(plans) ELSE plans
            /\ IF commitOk
               THEN /\ store' = store \cup SeqToSet(pending) \cup {row}
                    /\ pending' = <<>>
                    /\ loopPc' = "await_broadcast"
                    /\ TaskStays
                    /\ UNCHANGED runKept
               ELSE /\ \E dbUp \in BOOLEAN : CrashHandler(dbUp)
                    /\ UNCHANGED store
    /\ UNCHANGED <<outsideRun, getRunRaised, simFails, stopFlag, tick, telemetry, proposal, gov,
                   planUsed, govLog, hPc, stopCalls>>

\* send_command raised
SendCommandFails ==
    /\ loopPc = "await_send"
    /\ CrashHandler(TRUE)
    /\ simFails' = simFails + 1
    /\ UNCHANGED <<outsideRun, getRunRaised, store, clock, stopFlag, plans, tick,
                   telemetry, proposal, gov, planUsed, simLog, govLog, hPc, stopCalls>>

\* the broadcasts after the commit, then "If STOP was approved, complete run"
BroadcastEvent ==
    /\ loopPc = "await_broadcast"
    /\ \E commitOk \in BOOLEAN :
         IF proposal.intent = "STOP" /\ gov.decision = "APPROVED"
         THEN IF commitOk
              THEN /\ runStatus' = "completed"
                   /\ runEndedAt' = <<utc_now(clock)>>
                   /\ statusLog' = Append(statusLog, StatusMessage("completed", runStatus'))
                   /\ loopPc' = "await_status_broadcast"
                   /\ TaskStays
                   /\ UNCHANGED pending
              ELSE \E dbUp \in BOOLEAN : CrashHandler(dbUp)
         ELSE /\ commitOk
              /\ loopPc' = "sleep"
              /\ TaskStays
              /\ UNCHANGED <<runKept, pending>>
    /\ UNCHANGED <<outsideRun, getRunRaised, simFails, store, clock, stopFlag, plans,
                   tick, telemetry, proposal, gov, planUsed, simLog, govLog, hPc,
                   stopCalls>>

\* the status broadcast returned: break, or the end of the failure handler
StatusBroadcastDone ==
    /\ loopPc \in {"await_status_broadcast", "await_failed_broadcast"}
    /\ ExitLoop
    /\ UNCHANGED <<outsideRun, getRunRaised, simFails, runKept, store, pending, clock,
                   plans, tick,
                   telemetry, proposal, gov, planUsed, simLog, govLog, hPc, stopCalls>>

\* asyncio.sleep(0.1) returned
Sleep ==
    /\ loopPc = "sleep"
    /\ loopPc' = "top"
    /\ UNCHANGED <<outsideRun, getRunRaised, simFails, runKept, store, pending, clock,
                   taskLive, liveTasks, stopFlag,
                   plans, tick, telemetry, proposal, gov, planUsed, simLog, govLog, hPc,
                   stopCalls>>

\* RunService.ensure_loop_running
ensure_loop_running_mut_anystatus(db_status) ==
    IF taskLive
    THEN UNCHANGED <<taskLive, liveTasks, stopFlag, loopPc>>
    ELSE LaunchLoop

ensure_loop_running(db_status) ==
    IF db_status # "running"
    THEN UNCHANGED <<taskLive, liveTasks, stopFlag, loopPc>>
    ELSE IF taskLive
    THEN UNCHANGED <<taskLive, liveTasks, stopFlag, loopPc>>
    ELSE LaunchLoop

\* ws_run after hub.connect: the run is read and ensure_loop_running is
\* called on the event loop, with no await in between
WsConnect ==
    /\ runStatus # "none"
    /\ ensure_loop_running(runStatus)
    /\ UNCHANGED <<outsideRun, getRunRaised, simFails, runKept, store, pending, clock, plans,
                   tick, telemetry, proposal, gov, planUsed, simLog, govLog, hPc,
                   stopCalls>>

\* get_run: a plain "def" endpoint, so it runs in a worker thread.  When
\* ensure_loop_running gets as far as _launch_loop, the stop flag is replaced
\* and asyncio.create_task raises RuntimeError (no running event loop in
\* that thread): no task is created.
GetRun ==
    /\ runStatus # "none"
    /\ IF runStatus = "running" /\ ~taskLive
       THEN /\ stopFlag' = "clear"
            /\ getRunRaised' = TRUE
       ELSE /\ getRunRaised' = FALSE
            /\ UNCHANGED stopFlag
    /\ UNCHANGED <<outsideRun, simFails, runKept, store, pending, clock, loopPc, taskLive,
                   liveTasks, plans, tick, telemetry, proposal, gov, planUsed, simLog,
                   govLog, hPc, stopCalls>>

Init == PolIdle /\ VcIdle /\ RunIdle /\ PlIdle /\ AgIdle /\ ExtIdle

Next ==
    \/ StartRun
    \/ StartAppendPlan
    \/ StartPlanFails
    \/ StopRun
    \/ LoopTop
    \/ GetTelemetry
    \/ GetTelemetryFails
    \/ AgentPropose
    \/ SendCommand
    \/ SendCommandFails
    \/ BroadcastEvent
    \/ StatusBroadcastDone
    \/ Sleep
    \/ WsConnect
    \/ GetRun

Spec == Init /\ [][Next]_vars

(***************************************************************************)
(* Properties of the run controller                                        *)
(***************************************************************************)
Chain == EventsAsc(store)

Terminal == {"stopped", "completed", "failed"}

\* C1: in ts order the first stored event has the zero hash as prev_hash and
\* every later event's prev_hash is the hash of the event just before it.
C1_ChainLinked ==
    /\ Chain # <<>> => Chain[1].prev_hash = ZeroHash
    /\ \A i \in 2..Len(Chain) : Chain[i].prev_hash = Chain[i - 1].hash

\* C2: every command the simulator received was sent in a tick whose decision
\* for that very proposal was APPROVED; a tick whose decision is DENIED or
\* NEEDS_REVIEW sends nothing.
C2_SendOnlyIfApproved ==
    /\ \A i \in 1..Len(simLog) : \E j \in 1..Len(govLog) :
          /\ govLog[j].tick = simLog[i].tick
          /\ govLog[j].gov.decision = "APPROVED"
          /\ govLog[j].proposal.intent = simLog[i].intent
          /\ govLog[j].proposal.params = simLog[i].params
    /\ \A j \in 1..Len(govLog) :
          govLog[j].gov.decision \in {"DENIED", "NEEDS_REVIEW"} =>
             /\ \A i \in 1..Len(simLog) : simLog[i].tick # govLog[j].tick
             /\ ~(loopPc = "await_send" /\ tick = govLog[j].tick)

C2_Witness ==
    /\ Len(simLog) >= 1
    /\ \E j \in 1..Len(govLog) :
          /\ govLog[j].gov.decision = "NEEDS_REVIEW"
          /\ govLog[j].tick > simLog[1].tick
    /\ loopPc = "sleep"

\* C7: for every command the simulator received, the stored chain holds the
\* APPROVED DECISION event and the EXECUTION event of that tick.
C7_SentCommandsAudited ==
    \A i \in 1..Len(simLog) :
       /\ \E e \in store : /\ e.type = "DECISION" /\ e.tick = simLog[i].tick
                           /\ e.payload.governance.decision = "APPROVED"
       /\ \E e \in store : /\ e.type = "EXECUTION" /\ e.tick = simLog[i].tick
                           /\ e.payload.command.intent = simLog[i].intent

\* C8: a stored APPROVED DECISION event is followed, in ts order, by the
\* EXECUTION event appended in the same tick, and the ts order of the events
\* (stored or still in the session) is the order of the append calls.
AppendOrder(q) == \A i \in 1..Len(q) : \A j \in 1..Len(q) : i < j => q[i].ts < q[j].ts

C8_ExecutionFollowsDecision ==
    /\ \A i \in 1..Len(Chain) :
          (Chain[i].type = "DECISION" /\ Chain[i].payload.governance.decision = "APPROVED")
             => \E j \in (i + 1)..Len(Chain) :
                   /\ Chain[j].type = "EXECUTION"
                   /\ Chain[j].tick = Chain[i].tick
                   /\ Chain[j].payload.command.intent = Chain[i].payload.proposal.intent
                   /\ \A k \in (i + 1)..(j - 1) : Chain[k].type = "PLAN"
    /\ \A e \in store : \A o \in store : e.ts = o.ts => e = o
    /\ \A e \in store : e.ts < clock
    /\ AppendOrder(pending)
    /\ \A e \in store : \A o \in store :
          (e.tick # 0 /\ o.tick # 0 /\ e.tick < o.tick) => e.ts < o.ts

C8_Witness ==
    \E i \in 1..Len(Chain) : \E j \in 1..Len(Chain) :
       /\ Chain[i].type = "DECISION" /\ Chain[i].tick = 2
       /\ Chain[i].payload.governance.decision = "APPROVED"
       /\ Chain[j].type = "EXECUTION" /\ Chain[j].tick = 2
       /\ j = i + 2

\* C9: when the run is completed, the last two stored events are the APPROVED
\* DECISION of a STOP proposal and the EXECUTION of that STOP.
C9_CompletedEndsWithStop ==
    runStatus = "completed" =>
        /\ Len(Chain) >= 2
        /\ Chain[Len(Chain) - 1].type = "DECISION"
        /\ Chain[Len(Chain) - 1].payload.proposal.intent = "STOP"
        /\ Chain[Len(Chain) - 1].payload.governance.decision = "APPROVED"
        /\ Chain[Len(Chain)].type = "EXECUTION"
        /\ Chain[Len(Chain)].payload.command.intent = "STOP"
        /\ Chain[Len(Chain)].tick = Chain[Len(Chain) - 1].tick

\* C10: once the persisted status is stopped, completed or failed it never
\* changes again.
C10_TerminalIsFinal ==
    [][(runStatus \in Terminal) => (runStatus' = runStatus)]_vars

\* C11: after creation the persisted status changes only in a step of the
\* loop task; a stop_run call sets the stop signal and leaves the status as
\* it is.
C11_OnlyLoopChangesStatus ==
    [][(runStatus # "none" /\ runStatus' # runStatus)
          => (loopPc' # loopPc /\ stopCalls' = stopCalls)]_vars

\* C12: once the stop signal is set, no step of the loop task sends a command
\* to the simulator or appends an event.
C12_NoWorkAfterStopSignal ==
    [][(stopFlag = "set" /\ loopPc' # loopPc)
          => /\ simLog' = simLog
             /\ Len(pending') + Cardinality(store') <= Len(pending) + Cardinality(store)]_vars

\* C13: a failed simulator call in a tick of a running run leaves the status
\* running and the loop task alive.
C13_SimFailureAbortsTickOnly ==
    [][(simFails' > simFails /\ runStatus = "running")
          => (runStatus' = "running" /\ taskLive' /\ loopPc' # "done")]_vars

\* C14: when the loop marks the run failed, every event appended in the
\* failing tick before the failure is in the stored chain.
C14_FailedRunKeepsAppendedEvents ==
    [][(runStatus # "failed" /\ runStatus' = "failed")
          => \A i \in 1..Len(pending) : pending[i] \in store']_vars

\* C15: the loop task never ends while the persisted status is running.
C15_LoopNeverEndsWhileRunning ==
    ~(loopPc = "done" /\ ~taskLive /\ runStatus = "running")

\* C16: no two stored events of the run carry the same prev_hash.
C16_PrevHashUnique ==
    \A e \in store : \A o \in store : e # o => e.prev_hash # o.prev_hash

\* C17: there is never more than one live loop task of the run, and a task is
\* launched only when the persisted status is running and no task is live.
C17_AtMostOneLiveTask ==
    /\ [](liveTasks <= 1 /\ (taskLive <=> liveTasks = 1))
    /\ [][(liveTasks' > liveTasks)
             => (runStatus' = "running" /\ ~taskLive /\ liveTasks = 0)]_vars

\* a dead task of a running run was seen by get_run and then relaunched from
\* a WebSocket connect
C17_Witness ==
    /\ getRunRaised
    /\ taskLive /\ liveTasks = 1
    /\ loopPc = "top"
    /\ runStatus = "running"

(***************************************************************************)
(* Chain verification harness: a chain is built by serialized appends, a   *)
(* stored event may then be altered, and verify_chain is applied.          *)
(***************************************************************************)
MaxChainLen == 2

VcPayloads == {[note |-> "a"], [note |-> "b"]}

VcTypes == {"DECISION", "EXECUTION"}

\* replay_service.verify_chain
verify_chain(events) ==
    IF events = <<>> THEN TRUE
    ELSE IF Get(events[1], "prev_hash", ZeroHash) # ZeroHash THEN FALSE
    ELSE \A i \in 2..Len(events) : events[i].prev_hash = events[i - 1].hash

\* the hash an event must carry: SHA-256 over {run_id, ts, type, payload, prev_hash}
DerivedHash(e) ==
    sha256_canonical([run_id |-> RunId, ts |-> e.ts, type |-> e.type,
                      payload |-> e.payload, prev_hash |-> e.prev_hash])

\* str.lower() of an event type
Lower(etype) ==
    CASE etype = "DECISION" -> "decision"
      [] etype = "EXECUTION" -> "execution"
      [] etype = "PLAN" -> "plan"
      [] OTHER -> etype

\* routes_compliance._load_events_from_db: rows by ts, each reduced to the
\* fields of the report; the stored hash and prev_hash are not read
load_events_from_db(events) ==
    [i \in 1..Len(events) |->
        LET payload == events[i].payload
            governance == Get(payload, "governance", EmptyParams)
            prop0 == Get(payload, "proposal", EmptyParams)
        IN [id |-> <<"evt", events[i].ts>>,
            timestamp |-> events[i].ts,
            action_type |-> Lower(Get(prop0, "intent", events[i].type)),
            approved |-> Get(governance, "decision", "") = "APPROVED",
            risk_score |-> Get(governance, "risk_score", 0),
            violations |-> Get(governance, "policy_hits", <<>>)]]

\* hashlib.sha256(json.dumps(entry_data, sort_keys=True) + previous_hash)
AuditHash(entry_data, previous_hash) == <<"sha256:", entry_data, previous_hash>>

GenesisHash == ZeroHash

\* ComplianceReportService._build_audit_chain
RECURSIVE build_audit_chain(_, _, _)
build_audit_chain(evs, i, entries) ==
    IF i > Len(evs) THEN entries
    ELSE LET previous_hash == IF entries = <<>> THEN GenesisHash
                              ELSE entries[Len(entries)].hash
             entry == [data |-> evs[i], hash |-> AuditHash(evs[i], previous_hash),
                       previous_hash |-> previous_hash]
         IN build_audit_chain(evs, i + 1, Append(entries, entry))

\* ComplianceReportService._verify_chain
report_verify_chain(entries) ==
    \A i \in 1..Len(entries) :
        LET previous_hash == IF i = 1 THEN GenesisHash ELSE entries[i - 1].hash
        IN /\ entries[i].previous_hash = previous_hash
           /\ AuditHash(entries[i].data, previous_hash) = entries[i].hash

\* chain_valid of ComplianceReportService.generate_report
report_chain_valid(events) ==
    report_verify_chain(build_audit_chain(load_events_from_db(events), 1, <<>>))

VerifyInit == PolIdle /\ VcIdle /\ RunIdle /\ PlIdle /\ AgIdle /\ ExtIdle

\* an append through _append_event, committed at once
VcAppend ==
    /\ vcResult = <<>>
    /\ Len(vcEvents) < MaxChainLen
    /\ \E ty \in VcTypes, pl \in VcPayloads :
          vcEvents' = Append(vcEvents,
                             NewEventRow(SeqToSet(vcEvents), ty, pl, Len(vcEvents) + 1, 0))
    /\ UNCHANGED <<vcTampered, vcResult, polVars, runVars, extVars, plVars, agVars>>

\* a stored payload is changed; the stored hash values stay as they are
VcTamperPayload ==
    /\ vcResult = <<>>
    /\ \E i \in 1..Len(vcEvents), pl \in VcPayloads :
          /\ pl # vcEvents[i].payload
          /\ vcEvents' = [vcEvents EXCEPT ![i].payload = pl]
    /\ vcTampered' = TRUE
    /\ UNCHANGED <<vcResult, polVars, runVars, extVars, plVars, agVars>>

\* a stored payload is changed and that event's hash is recomputed; the
\* prev_hash of the next event stays as it is
VcTamperRehash ==
    /\ vcResult = <<>>
    /\ \E i \in 1..Len(vcEvents), pl \in VcPayloads :
          /\ pl # vcEvents[i].payload
          /\ vcEvents' = [vcEvents EXCEPT
                             ![i].payload = pl,
                             ![i].hash = DerivedHash([vcEvents[i] EXCEPT !.payload = pl])]
    /\ vcTampered' = TRUE
    /\ UNCHANGED <<vcResult, polVars, runVars, extVars, plVars, agVars>>

VcVerify ==
    /\ vcResult = <<>>
    /\ vcResult' = <<verify_chain(vcEvents)>>
    /\ UNCHANGED <<vcEvents, vcTampered, polVars, runVars, extVars, plVars, agVars>>

\* GET /compliance/verify/{run_id} (and the report endpoints): chain_valid
\* of the report generated from the stored events
VcCompliance ==
    /\ crResult = <<>>
    /\ vcEvents # <<>>
    /\ crResult' = <<[events |-> vcEvents, chain_valid |-> report_chain_valid(vcEvents)]>>
    /\ UNCHANGED <<vcVars, coreRest, rhVars, msVars, hubVars, memVars, epVars>>

VerifyNext == VcAppend \/ VcTamperPayload \/ VcTamperRehash \/ VcVerify \/ VcCompliance

SpecVerify == VerifyInit /\ [][VerifyNext]_vars

\* C6: verify_chain returns true only if every event's stored hash is the
\* hash re-derived from its {run_id, ts, type, payload, prev_hash} (and the
\* prev_hash linkage is right).
C6_VerifyRederivesHashes ==
    vcResult = <<TRUE>> =>
        /\ \A i \in 1..Len(vcEvents) : vcEvents[i].hash = DerivedHash(vcEvents[i])
        /\ vcEvents # <<>> => vcEvents[1].prev_hash = ZeroHash
        /\ \A i \in 2..Len(vcEvents) : vcEvents[i].prev_hash = vcEvents[i - 1].hash

\* C28: the chain_valid that the compliance report and the compliance verify
\* endpoint return agrees with verify_chain on the stored events of the run:
\* it is false whenever a stored prev_hash or hash does not match.
C28_ComplianceAgreesWithVerify ==
    \A i \in 1..Len(crResult) :
        crResult[i].chain_valid = verify_chain(crResult[i].events)

(***************************************************************************)
(* AgenticPlanner.propose: one call, with the language model's answers     *)
(* chosen freely                                                           *)
(***************************************************************************)
MAX_STEPS == 6
MAX_REPLANS == 2

ManualOverrideText == "Unable to generate safe plan - recommend manual override"

PlTelemetry == LoopTelemetry

\* a step of the answer that calls a tool
ToolStep == [action |-> "check_policy"]

\* submit_action steps the model may write
SubmitSteps ==
    {[action |-> "submit_action", intent |-> "MOVE_TO", x |-> dx, max_speed |-> sp,
      rationale |-> "Moving to goal."] : dx \in {100, 500}, sp \in {5, 40, 80}}
    \cup {[action |-> "submit_action", intent |-> i, x |-> 100, max_speed |-> 50,
           rationale |-> ra] : i \in {"WAIT", "STOP"},
                               ra \in {"Holding position.", ManualOverrideText}}

\* answers: a JSON list of reasoning steps
LLMAnswers ==
    {<<st>> : st \in SubmitSteps}
    \cup {<<ToolStep, st>> : st \in {u \in SubmitSteps : u.intent = "MOVE_TO" /\ u.x = 100}}
    \cup {<<ToolStep>>}
    \cup {<<ToolStep, ToolStep, ToolStep, ToolStep, ToolStep, ToolStep, st>> :
             st \in {u \in SubmitSteps : u.intent = "STOP"}}

\* the proposal built from a submit_action step
SubmittedProposal(st, goal, model) ==
    [intent |-> st.intent,
     params |-> IF st.intent = "MOVE_TO"
                THEN [x |-> Max(0, Min(300, st.x)),
                      y |-> Max(0, Min(200, goal.y)),
                      max_speed |-> Max(10, Min(100, st.max_speed))]
                ELSE EmptyParams,
     rationale |-> <<model, "/agentic", st.rationale>>]

FallbackZoneLimits == [aisle |-> 50, loading_bay |-> 40, corridor |-> 70]

Abs(i) == IF i < 0 THEN -i ELSE i

\* AgenticPlanner._deterministic_fallback
deterministic_fallback(t, goal, denials) ==
    LET human_d == Get(t, "human_distance_m", FAR_AWAY)
        s0 == IF human_d < 30 THEN 30 ELSE 50
        s1 == IF denials >= 2 THEN Min(s0, 30) ELSE s0
        zone == Get(t, "zone", "aisle")
        speed == Min(s1, Get(FallbackZoneLimits, zone, 50))
    IN IF Abs(t.x - goal.x) < 5 /\ Abs(t.y - goal.y) < 5
       THEN [intent |-> "STOP", params |-> EmptyParams,
             rationale |-> <<"agentic/fallback", "Reached goal.">>]
       ELSE IF human_d < 10
       THEN [intent |-> "STOP", params |-> EmptyParams,
             rationale |-> <<"agentic/fallback", "Human too close, stopping.">>]
       ELSE [intent |-> "MOVE_TO",
             params |-> [x |-> goal.x, y |-> goal.y, max_speed |-> speed],
             rationale |-> <<"agentic/fallback", "Safe navigation">>]

\* "Execute reasoning chain with tools": steps_raw[:MAX_STEPS], stopping at
\* the first submit_action
RECURSIVE ReasoningChain(_, _, _, _, _)
ReasoningChain(steps, i, thoughts, goal, model) ==
    IF i > Min(Len(steps), MAX_STEPS)
    THEN [thoughts |-> thoughts, proposal |-> NoValue]
    ELSE LET step == [step_number |-> Len(thoughts) + 1, action |-> steps[i].action]
         IN IF steps[i].action = "submit_action"
            THEN [thoughts |-> Append(thoughts, step),
                  proposal |-> SubmittedProposal(steps[i], goal, model)]
            ELSE ReasoningChain(steps, i + 1, Append(thoughts, step), goal, model)

ReplanThought_mut_silent(thoughts) == thoughts

\* "Add a replan thought step"
ReplanThought(thoughts) ==
    Append(thoughts, [step_number |-> Len(thoughts) + 1, action |-> "replan"])

\* "if pre_check.decision == 'APPROVED' or replan_attempt >= self.MAX_REPLANS"
PreCheckReturns(pre, replan_attempt) ==
    pre.decision = "APPROVED" \/ replan_attempt >= MAX_REPLANS

\* entry of propose, up to the first call of the language model
PlannerInit ==
    /\ plPc = "await_llm"
    /\ plAttempt = 0
    /\ plTel \in PlTelemetry
    /\ plDenials \in {0, 3}
    /\ \E last \in {"none", "APPROVED", "DENIED"} :
          LET fb0 == IF last = "DENIED" THEN <<"Decision: DENIED">> ELSE <<>>
          IN plFeedback = IF plDenials >= 3 THEN fb0 \o <<"WARNING">> ELSE fb0
    /\ plThoughts = <<>>
    /\ plModel = "unknown"
    /\ plResult = <<>>
    /\ plHistory = <<>>
    /\ PolIdle /\ VcIdle /\ RunIdle /\ AgIdle /\ ExtIdle

\* every model of the cascade returned nothing
PlLLMFails ==
    /\ plPc = "await_llm"
    /\ plResult' = <<deterministic_fallback(plTel, Goal, plDenials)>>
    /\ plModel' = "deterministic"
    /\ plPc' = "returned"
    /\ UNCHANGED <<plAttempt, plTel, plDenials, plFeedback, plThoughts, plHistory,
                   polVars, vcVars, runVars, extVars, agVars>>

\* a model answered, _extract_json raised
PlParseFails ==
    /\ plPc = "await_llm"
    /\ plResult' = <<deterministic_fallback(plTel, Goal, plDenials)>>
    /\ plModel' = "gemini"
    /\ plPc' = "returned"
    /\ UNCHANGED <<plAttempt, plTel, plDenials, plFeedback, plThoughts, plHistory,
                   polVars, vcVars, runVars, extVars, agVars>>

\* a model answered with a list of steps: run the chain, pre-check the
\* proposal, return it or replan
PlReason ==
    /\ plPc = "await_llm"
    /\ \E steps \in LLMAnswers :
         LET rc == ReasoningChain(steps, 1, plThoughts, Goal, "gemini")
             prop == IF rc.proposal = NoValue
                     THEN deterministic_fallback(plTel, Goal, plDenials)
                     ELSE rc.proposal
             pre_check == evaluate_policies(plTel, prop)
         IN /\ plModel' = "gemini"
            /\ plHistory' = Append(plHistory, [proposal |-> prop,
                                               decision |-> pre_check.decision,
                                               steps |-> Len(rc.thoughts) - Len(plThoughts)])
            /\ IF PreCheckReturns(pre_check, plAttempt)
               THEN /\ plResult' = <<prop>>
                    /\ plThoughts' = rc.thoughts
                    /\ plPc' = "returned"
                    /\ UNCHANGED <<plAttempt, plFeedback>>
               ELSE /\ plFeedback' = <<"Pre-check DENIED", ToString(plAttempt + 1)>>
                    /\ plThoughts' = ReplanThought(rc.thoughts)
                    /\ plAttempt' = plAttempt + 1
                    /\ UNCHANGED <<plPc, plResult>>
    /\ UNCHANGED <<plTel, plDenials, polVars, vcVars, runVars, extVars, agVars>>

\* answers that parse as JSON but whose steps the chain cannot read: a step
\* that is no object (step_raw.get raises AttributeError), a submit_action
\* whose max_speed is no number (float raises ValueError)
MalformedAnswers ==
    {<<"not an object">>,
     <<ToolStep, [action |-> "submit_action", intent |-> "MOVE_TO", max_speed |-> "fast"]>>}

\* a model answered with such a list: the exception leaves propose
PlStepRaises ==
    /\ plPc = "await_llm"
    /\ \E steps \in MalformedAnswers : plPc' = "raised"
    /\ plModel' = "gemini"
    /\ UNCHANGED <<plAttempt, plTel, plDenials, plFeedback, plThoughts, plResult, plHistory,
                   polVars, vcVars, runVars, extVars, agVars>>

PlannerNext == PlLLMFails \/ PlParseFails \/ PlReason \/ PlStepRaises

SpecPlanner == PlannerInit /\ [][PlannerNext]_vars

ContainsManualOverride(rationale) ==
    \E i \in 1..Len(rationale) : rationale[i] = ManualOverrideText

\* C19: when all MAX_REPLANS + 1 attempts were pre-checked and none was
\* approved, propose returns a WAIT proposal whose rationale contains the
\* manual-override text, and the thought chain ends with a graceful_stop step;
\* a returned proposal that was pre-checked was approved by the pre-check.
C19_ExhaustedReturnsWait ==
    plPc = "returned" =>
       /\ (/\ Len(plHistory) = MAX_REPLANS + 1
           /\ \A i \in 1..Len(plHistory) : plHistory[i].decision # "APPROVED")
             => /\ plResult[1].intent = "WAIT"
                /\ ContainsManualOverride(plResult[1].rationale)
                /\ plThoughts # <<>>
                /\ plThoughts[Len(plThoughts)].action = "graceful_stop"
       /\ \A i \in 1..Len(plHistory) :
             plHistory[i].proposal = plResult[1] => plHistory[i].decision = "APPROVED"

\* C20: when the pre-check rejected the proposal of the first attempt and
\* approved the proposal of the second, propose returns the second attempt's
\* proposal and the thought chain has a replan step.
C20_ReturnsApprovedAttempt ==
    (/\ plPc = "returned"
     /\ Len(plHistory) >= 2
     /\ plHistory[1].decision # "APPROVED"
     /\ plHistory[2].decision = "APPROVED")
       => /\ plResult = <<plHistory[2].proposal>>
          /\ \E i \in 1..Len(plThoughts) : plThoughts[i].action = "replan"
          /\ plAttempt = 1

C20_Witness ==
    /\ plPc = "returned"
    /\ Len(plHistory) = 2
    /\ plHistory[1].decision = "NEEDS_REVIEW"
    /\ plHistory[2].decision = "APPROVED"
    /\ plHistory[1].proposal.intent = "MOVE_TO"
    /\ plHistory[2].proposal.intent = "MOVE_TO"
    /\ plResult[1].params.max_speed = 40

\* C32: whenever at least 3 of the last 5 recorded outcomes are DENIED or
\* NEEDS_REVIEW, every prompt built during a call of propose, the replan
\* prompts included, carries the "significantly change strategy" warning.
C32_EveryPromptCarriesWarning ==
    (plPc = "await_llm" /\ plDenials >= 3) => InSeq("WARNING", plFeedback)

\* C21: one call of propose ends by returning a proposal, after at most
\* MAX_REPLANS + 1 = 3 attempts, none of which executed more than 3 reasoning
\* steps, whatever the language model answered.
C21_BoundedAttemptsAndSteps ==
    /\ plAttempt <= 2
    /\ Len(plHistory) <= 3
    /\ \A i \in 1..Len(plHistory) : plHistory[i].steps <= 3
    /\ plPc # "await_llm" =>
          /\ plPc = "returned"
          /\ Len(plResult) = 1
          /\ plResult[1].intent \in {"MOVE_TO", "STOP", "WAIT"}

(***************************************************************************)
(* Two run loops of one RunService.  RunService.__init__ builds one        *)
(* AgentRouter; in agentic mode it holds one AgenticPlanner with one       *)
(* AgentMemory and one _last_thought_chain, used by every _run_loop task.  *)
(***************************************************************************)
MaxAgTicks == 2

\* the proposals of these runs keep them going (an approved STOP ends a run)
AgMoves == {p \in AgentProposals : p.intent = "MOVE_TO"}

\* AgentMemory(max_entries = 20)
MaxEntries == 20

AgentMemoryAdd_mut_keepoldest(entries, e) ==
    LET a == Append(entries, e)
    IN IF Len(a) > MaxEntries THEN SubSeq(a, 1, MaxEntries) ELSE a

\* AgentMemory.add
AgentMemoryAdd(entries, e) ==
    LET a == Append(entries, e)
    IN IF Len(a) > MaxEntries THEN SubSeq(a, Len(a) - MaxEntries + 1, Len(a)) ELSE a

\* AgentRouter.record_outcome -> AgenticPlanner.record_outcome; run and tick
\* tell where the entry came from
record_outcome(entries, r, k, intent, decision, was_executed) ==
    AgentMemoryAdd(entries, [run |-> r, tick |-> k, proposal_intent |-> intent,
                             governance_decision |-> decision,
                             was_executed |-> was_executed])

\* "thought_chain = self.agent.last_thought_chain"
ChainForBroadcast(r, routerChain) == routerChain

\* lines 286-303: record the outcome, commit, broadcast the reasoning chain
AgFinishTick(r, intent, decision, was_executed, routerChain) ==
    LET thought_chain == ChainForBroadcast(r, routerChain)
    IN /\ agMemory' = record_outcome(agMemory, r, agTick[r], intent, decision,
                                     was_executed)
       /\ agSent' = IF thought_chain # <<>>
                    THEN Append(agSent, [run |-> r, tick |-> agTick[r],
                                         steps |-> thought_chain])
                    ELSE agSent
       /\ agPc' = [agPc EXCEPT ![r] = "top"]
       /\ agLocal' = [agLocal EXCEPT ![r] = NoValue]

\* a tick begins and reaches agent.propose: the router clears its chain, the
\* planner reads its memory (denial_count, to_context) and calls the model
AgProposeStart(r) ==
    /\ agPc[r] = "top"
    /\ agTick[r] < MaxAgTicks
    /\ agTick' = [agTick EXCEPT ![r] = @ + 1]
    /\ agLastChain' = <<>>
    /\ agConsulted' = [agConsulted EXCEPT ![r] = agMemory]
    /\ agPc' = [agPc EXCEPT ![r] = "await_llm"]
    /\ UNCHANGED <<agLocal, agMemory, agSent, polVars, vcVars, runVars, extVars, plVars>>

\* the planner returned: the router stores the chain, the loop clamps and
\* evaluates the proposal; a proposal that is not executed is recorded at once
AgProposeReturn(r) ==
    /\ agPc[r] = "await_llm"
    /\ \E t \in LoopTelemetry, p0 \in AgMoves, answered \in BOOLEAN :
         LET chain == IF answered
                      THEN <<[run |-> r, tick |-> agTick[r], action |-> "submit_action"]>>
                      ELSE <<>>
             p == ClampToZone(p0, t)
             g == evaluate_policies(t, p)
         IN /\ agLastChain' = chain
            /\ agConsulted' = IF answered THEN agConsulted
                              ELSE [agConsulted EXCEPT ![r] = agMemory]
            /\ IF ShouldExecute(g)
               THEN /\ agPc' = [agPc EXCEPT ![r] = "await_send"]
                    /\ agLocal' = [agLocal EXCEPT ![r] =
                                      [intent |-> p.intent, decision |-> g.decision]]
                    /\ UNCHANGED <<agMemory, agSent>>
               ELSE AgFinishTick(r, p.intent, g.decision, FALSE, chain)
    /\ UNCHANGED <<agTick, polVars, vcVars, runVars, extVars, plVars>>

\* send_command returned
AgSendReturn(r) ==
    /\ agPc[r] = "await_send"
    /\ AgFinishTick(r, agLocal[r].intent, agLocal[r].decision, TRUE, agLastChain)
    /\ UNCHANGED <<agTick, agLastChain, agConsulted, polVars, vcVars, runVars, extVars, plVars>>

AgentsInit == PolIdle /\ VcIdle /\ RunIdle /\ PlIdle /\ AgIdle /\ ExtIdle

AgentsNext ==
    \E r \in AgRuns : AgProposeStart(r) \/ AgProposeReturn(r) \/ AgSendReturn(r)

SpecAgents == AgentsInit /\ [][AgentsNext]_vars

\* C18: the memory entries a run's propose reads were all recorded by that
\* run, and every agent_reasoning message of a run carries the chain produced
\* for that run's proposal of that tick.
C18_PlannerStatePrivate ==
    /\ \A r \in AgRuns : \A i \in 1..Len(agConsulted[r]) : agConsulted[r][i].run = r
    /\ \A i \in 1..Len(agSent) : \A k \in 1..Len(agSent[i].steps) :
          /\ agSent[i].steps[k].run = agSent[i].run
          /\ agSent[i].steps[k].tick = agSent[i].tick

(***************************************************************************)
(* rehydrate_plans and the proposals the run loop hands to gov.evaluate,   *)
(* over persisted runs chosen freely                                       *)
(***************************************************************************)
RhStatuses == {"running", "stopped"}

\* waypoints as stored in the JSON payload of a PLAN event
RhWpMid == [x |-> 100, y |-> 50, max_speed |-> 50]
RhWpSlow == [x |-> 100, y |-> 50, max_speed |-> 5]
RhWpFast == [x |-> 100, y |-> 50, max_speed |-> 120]
RhWpBare == [x |-> 100, y |-> 50]

\* plan_payload of start_run: {"mission_id", "proposal", "note"}
RhStartPayload ==
    [mission_id |-> "mis_1",
     proposal |-> [intent |-> "MOVE_TO",
                   params |-> [x |-> Goal.x, y |-> Goal.y, max_speed |-> 60]],
     note |-> "Initial LLM plan generated at start()"]

\* the payload shape rehydrate_plans reads: {"plan": {"waypoints": [...]}}
RhWaypointPayload(wps) == [plan |-> [waypoints |-> wps]]

RhEvent(etype, ts, payload) == [type |-> etype, ts |-> ts, payload |-> payload]

\* persisted event lists of a run, in order of ts
RhEventLists ==
    {<<>>,
     <<RhEvent("PLAN", 1, RhStartPayload)>>,
     <<RhEvent("PLAN", 1, RhStartPayload), RhEvent("DECISION", 2, [note |-> "d"])>>,
     <<RhEvent("PLAN", 1, RhStartPayload),
       RhEvent("PLAN", 2, RhWaypointPayload(<<RhWpMid, RhWpFast>>))>>,
     <<RhEvent("PLAN", 1, RhStartPayload),
       RhEvent("PLAN", 2, RhWaypointPayload(<<RhWpMid>>)),
       RhEvent("PLAN", 3, RhWaypointPayload(<<RhWpSlow, RhWpBare>>))>>}

PlanEvents(events) == {events[i] : i \in {j \in 1..Len(events) : events[j].type = "PLAN"}}

\* ".filter(Event.type == 'PLAN').order_by(Event.ts.desc()).first()"
LatestPlan(events) ==
    IF PlanEvents(events) = {}
    THEN NoValue
    ELSE CHOOSE e \in PlanEvents(events) : \A o \in PlanEvents(events) : o.ts <= e.ts

\* "plan = payload.get('plan') or {}; waypoints = plan.get('waypoints') or []"
StoredWaypoints(payload) == Get(Get(payload, "plan", EmptyParams), "waypoints", <<>>)

\* RunService.rehydrate_plans
rehydrate_plans(runs, queues) ==
    [r \in DOMAIN runs |->
        IF runs[r].status = "running"
              /\ LatestPlan(runs[r].events) # NoValue
              /\ StoredWaypoints(LatestPlan(runs[r].events).payload) # <<>>
        THEN StoredWaypoints(LatestPlan(runs[r].events).payload)
        ELSE queues[r]]

\* SimpleAgent.propose
SimpleAgentProposals(t) ==
    IF Abs(t.x - Goal.x) < 3 /\ Abs(t.y - Goal.y) < 3
    THEN {[intent |-> "STOP", params |-> EmptyParams]}
    ELSE {[intent |-> "MOVE_TO", params |-> [x |-> Goal.x, y |-> Goal.y, max_speed |-> sp]] :
             sp \in {80, 40}}

\* max_speed values a language model may write
RawSpeeds == {5, 50, 120}

\* GeminiPlanner.propose: the model's proposal with max_speed clamped, or
\* _deterministic_proposal
GeminiProposals(t) ==
    {[intent |-> "MOVE_TO",
      params |-> [x |-> Goal.x, y |-> Goal.y, max_speed |-> Max(10, Min(100, raw))]] :
         raw \in RawSpeeds}
    \cup {[intent |-> "WAIT", params |-> EmptyParams]}
    \cup {IF Abs(t.x - Goal.x) < 5 /\ Abs(t.y - Goal.y) < 5
          THEN [intent |-> "STOP", params |-> EmptyParams]
          ELSE [intent |-> "MOVE_TO",
                params |-> [x |-> Goal.x, y |-> Goal.y,
                            max_speed |-> IF t.human_detected THEN 40 ELSE 60]]}

\* AgenticPlanner.propose: a submitted proposal or the fallback
AgenticProposals(t) ==
    {[intent |-> q.intent, params |-> q.params] :
        q \in {SubmittedProposal(st, Goal, "gemini") : st \in SubmitSteps}
              \cup {deterministic_fallback(t, Goal, d) : d \in {0, 3}}}

ProposalsOf(origin, t) ==
    CASE origin = "deterministic" -> SimpleAgentProposals(t)
      [] origin = "planner" -> GeminiProposals(t)
      [] origin = "agentic" -> AgenticProposals(t)

RehydrateInit ==
    /\ rhRuns \in [RhRunIds -> [status : RhStatuses, events : RhEventLists]]
    /\ rhPlans = [r \in RhRunIds |-> <<>>]
    /\ rhPc = "boot"
    /\ rhSeen = <<>>
    /\ rhTick = [r \in RhRunIds |-> NoValue]
    /\ CoreIdle /\ MsIdle /\ HubIdle /\ CrIdle /\ MemIdle /\ EpIdle

\* rehydrate_plans(db) after a restart
RhRehydrate ==
    /\ rhPc = "boot"
    /\ rhPlans' = rehydrate_plans(rhRuns, rhPlans)
    /\ rhPc' = "ready"
    /\ UNCHANGED <<rhRuns, rhSeen, rhTick, outsideRh>>

\* the part of a tick between get_telemetry and the governance decision; an
\* approved proposal goes on to send_command
RhSee(r, origin, t, p0) ==
    LET p == ClampToZone(p0, t)
        g == evaluate_policies(t, p)
    IN /\ rhSeen' = <<[run |-> r, origin |-> origin, proposal |-> p]>>
       /\ rhTick' = IF ShouldExecute(g)
                    THEN [rhTick EXCEPT ![r] = [origin |-> origin, decision |-> g.decision]]
                    ELSE rhTick
       /\ UNCHANGED rhPlans

PopWaypoint_mut_keep(queue) == queue

\* "self._plans[run_id].pop(0)"; an emptied list leaves the registry
PopWaypoint(queue) == Tail(queue)

\* send_command returned: "If we executed a planned waypoint, remove it"
RhSendReturns(r) ==
    /\ rhTick[r] # NoValue
    /\ rhPlans' = IF rhTick[r].origin = "plan"
                  THEN [rhPlans EXCEPT ![r] = PopWaypoint(@)]
                  ELSE rhPlans
    /\ rhTick' = [rhTick EXCEPT ![r] = NoValue]
    /\ UNCHANGED <<rhRuns, rhPc, rhSeen, outsideRh>>

\* send_command raised: the loop's handler marks the run failed
RhSendFails(r) ==
    /\ rhTick[r] # NoValue
    /\ rhRuns' = [rhRuns EXCEPT ![r].status = "failed"]
    /\ rhTick' = [rhTick EXCEPT ![r] = NoValue]
    /\ UNCHANGED <<rhPlans, rhPc, rhSeen, outsideRh>>

\* a tick of the loop of run r whose plan queue is not empty
RhTickPlan(r) ==
    /\ rhRuns[r].status = "running"
    /\ rhTick[r] = NoValue
    /\ rhPlans[r] # <<>>
    /\ \E t \in LoopTelemetry : RhSee(r, "plan", t, PlanProposal(Head(rhPlans[r])))
    /\ UNCHANGED <<rhRuns, rhPc, outsideRh>>

\* a tick of the loop of run r that asks the agent
RhTickAgent(r) ==
    /\ rhRuns[r].status = "running"
    /\ rhTick[r] = NoValue
    /\ rhPlans[r] = <<>>
    /\ \E t \in LoopTelemetry, origin \in {"deterministic", "planner", "agentic"} :
          \E p0 \in ProposalsOf(origin, t) : RhSee(r, origin, t, p0)
    /\ UNCHANGED <<rhRuns, rhPc, outsideRh>>

RehydrateNext ==
    \/ RhRehydrate
    \/ \E r \in RhRunIds : RhTickPlan(r)
    \/ \E r \in RhRunIds : RhTickAgent(r)
    \/ \E r \in RhRunIds : RhSendReturns(r)
    \/ \E r \in RhRunIds : RhSendFails(r)

SpecRehydrate == RehydrateInit /\ [][RehydrateNext]_vars

PlannedWaypoints(payload) ==
    IF "plan" \in DOMAIN payload
    THEN StoredWaypoints(payload)
    ELSE <<payload.proposal.params>>

\* C29: rehydrate_plans leaves every run that is persisted as running and has
\* a PLAN event with its plan queue set to the waypoints of its latest PLAN
\* event, the PLAN event of start_run included; runs in any other status get no
\* queue.
C29_RehydrateRestoresLatestPlan ==
    [][(rhPc = "boot" /\ rhPc' = "ready") =>
          \A r \in RhRunIds :
             IF rhRuns[r].status = "running" /\ LatestPlan(rhRuns[r].events) # NoValue
             THEN rhPlans'[r] = PlannedWaypoints(LatestPlan(rhRuns[r].events).payload)
             ELSE rhPlans'[r] = <<>>]_vars

C30_StartedRunHasPlan ==
    hPc = "done" => \E e \in store : e.type = "PLAN"

\* the DECISION rows the loop has added, committed or not yet
DecisionEvents == {e \in store \cup SeqToSet(pending) : e.type = "DECISION"}

\* C37: no DECISION event appended by the run loop lists SAFE_SPEED_01 among
\* its policy hits.
C37_NoSafeSpeedHitInLoop ==
    \A e \in DecisionEvents :
        ~InSeq("SAFE_SPEED_01", e.payload.governance.policy_hits)

\* a decision on a proposal whose speed the loop lowered to the zone's limit
C37_Witness ==
    \E e \in DecisionEvents :
        /\ e.payload.proposal.intent = "MOVE_TO"
        /\ e.payload.proposal.params.max_speed
              = ZoneLimit(e.payload.context.telemetry.zone)
        /\ \E p0 \in AgentProposals :
              /\ p0.intent = "MOVE_TO"
              /\ p0.params.max_speed > e.payload.proposal.params.max_speed

\* C38: at all times a run's ended_at is unset exactly when its status is
\* running.
C38_EndedAtUnsetIffRunning ==
    runStatus # "none" => ((runEndedAt = <<>>) <=> (runStatus = "running"))

\* a stop request has ended a running run
C38_Witness ==
    /\ runStatus = "stopped"
    /\ runEndedAt # <<>>
    /\ stopCalls > 0

\* C39: every status message broadcast for the run carries the status that
\* is persisted for the run at that moment.
C39_StatusMessageIsPersistedStatus ==
    \A i \in 1..Len(statusLog) : statusLog[i].status = statusLog[i].persisted

(***************************************************************************)
(* One mission: MissionService behind the mission routes, start_run, and   *)
(* the run loop completing the mission                                     *)
(***************************************************************************)
MaxMsOps == 4

MsTitles == {"Deliver", "Restock"}

\* goal coordinates a client may send
MsGoals == {[x |-> 100, y |-> 50], [x |-> 110, y |-> 50], [x |-> 500, y |-> 50]}

\* what GET /world of the simulator returns, or NoValue when it cannot be fetched
MsWorld ==
    [geofence |-> [min_x |-> 0, max_x |-> 300, min_y |-> 0, max_y |-> 200],
     bays |-> {[x |-> 100, y |-> 50], [x |-> 200, y |-> 150]}]

SNAP_THRESHOLD == 15

Dist2(a, b) == (a.x - b.x) * (a.x - b.x) + (a.y - b.y) * (a.y - b.y)

\* MissionService._normalize_goal
normalize_goal(goal, world) ==
    IF world = NoValue
    THEN [x |-> goal.x, y |-> goal.y]
    ELSE LET gf == world.geofence
             c == [x |-> Max(gf.min_x, Min(goal.x, gf.max_x)),
                   y |-> Max(gf.min_y, Min(goal.y, gf.max_y))]
             best == CHOOSE b \in world.bays :
                        \A o \in world.bays : Dist2(b, c) <= Dist2(o, c)
         IN IF world.bays # {} /\ Dist2(best, c) <= SNAP_THRESHOLD * SNAP_THRESHOLD
            THEN [x |-> best.x, y |-> best.y]
            ELSE c

editable_mut_notdeleted(status) == status # "deleted"

\* "if m.status not in ('draft', 'paused'): return None"
editable(status) == status \in {"draft", "paused"}

\* MissionService._audit
AuditEntry(action, old_values, new_values) ==
    [action |-> action, old_values |-> old_values, new_values |-> new_values]

\* MissionService.set_status
SetStatus(new_status) ==
    /\ mStatus' = new_status
    /\ mAudit' = Append(mAudit, AuditEntry("STATUS_CHANGE", [status |-> mStatus],
                                           [status |-> new_status]))

Respond(op, code) ==
    /\ mResp' = [op |-> op, code |-> code]
    /\ mOps' = mOps + 1

MissionInit == MsIdle /\ CoreIdle /\ RhIdle /\ HubIdle /\ CrIdle /\ MemIdle /\ EpIdle

\* POST /missions
MsCreate ==
    /\ mOps < MaxMsOps
    /\ mStatus = "none"
    /\ \E title \in MsTitles, goal \in MsGoals, world \in {NoValue, MsWorld} :
          /\ mTitle' = title
          /\ mGoal' = normalize_goal(goal, world)
          /\ mAudit' = Append(mAudit, AuditEntry("CREATED", NoValue,
                                  [title |-> title, goal |-> goal, status |-> "draft"]))
    /\ mStatus' = "draft"
    /\ Respond("create", 200)
    /\ UNCHANGED <<mRunLive, outsideMs>>

\* GET /missions/{id}
MsGet ==
    /\ mOps < MaxMsOps
    /\ Respond("get", IF mStatus = "none" THEN 404 ELSE 200)
    /\ UNCHANGED <<mStatus, mTitle, mGoal, mAudit, mRunLive, outsideMs>>

\* PATCH /missions/{id}: MissionService.update, 404 when it returns None
MsUpdate ==
    /\ mOps < MaxMsOps
    /\ \E title \in MsTitles \cup {""}, goal \in MsGoals \cup {NoValue},
          world \in {NoValue, MsWorld} :
          IF mStatus = "none" \/ ~editable(mStatus)
          THEN /\ Respond("update", 404)
               /\ UNCHANGED <<mTitle, mGoal, mAudit>>
          ELSE LET title_new == title # "" /\ title # mTitle
                   new_goal == IF goal = NoValue THEN mGoal ELSE normalize_goal(goal, world)
                   goal_new == new_goal # mGoal
                   old_vals == [k \in (IF title_new THEN {"title"} ELSE {})
                                      \cup (IF goal_new THEN {"goal"} ELSE {}) |->
                                   IF k = "title" THEN <<mTitle>> ELSE <<mGoal>>]
                   new_vals == [k \in DOMAIN old_vals |->
                                   IF k = "title" THEN <<title>> ELSE <<new_goal>>]
               IN /\ mTitle' = IF title_new THEN title ELSE mTitle
                  /\ mGoal' = new_goal
                  /\ mAudit' = IF title_new \/ goal_new
                               THEN Append(mAudit, AuditEntry("UPDATED", old_vals, new_vals))
                               ELSE mAudit
                  /\ Respond("update", 200)
    /\ UNCHANGED <<mStatus, mRunLive, outsideMs>>

\* POST /missions/{id}/pause
MsPause ==
    /\ mOps < MaxMsOps
    /\ IF mStatus = "none"
       THEN Respond("pause", 404) /\ UNCHANGED <<mStatus, mAudit>>
       ELSE IF mStatus \notin {"draft", "executing"}
       THEN Respond("pause", 400) /\ UNCHANGED <<mStatus, mAudit>>
       ELSE SetStatus("paused") /\ Respond("pause", 200)
    /\ UNCHANGED <<mTitle, mGoal, mRunLive, outsideMs>>

\* POST /missions/{id}/resume
MsResume ==
    /\ mOps < MaxMsOps
    /\ IF mStatus = "none"
       THEN Respond("resume", 404) /\ UNCHANGED <<mStatus, mAudit>>
       ELSE IF mStatus # "paused"
       THEN Respond("resume", 400) /\ UNCHANGED <<mStatus, mAudit>>
       ELSE SetStatus("draft") /\ Respond("resume", 200)
    /\ UNCHANGED <<mTitle, mGoal, mRunLive, outsideMs>>

\* POST /missions/{id}/replay: MissionService.replay, 400 when it returns None
MsReplay ==
    /\ mOps < MaxMsOps
    /\ IF mStatus \notin {"completed", "failed", "paused"}
       THEN Respond("replay", 400) /\ UNCHANGED <<mStatus, mAudit>>
       ELSE /\ mStatus' = "draft"
            /\ mAudit' = Append(mAudit, AuditEntry("REPLAYED", [status |-> mStatus],
                                                   [status |-> "draft"]))
            /\ Respond("replay", 200)
    /\ UNCHANGED <<mTitle, mGoal, mRunLive, outsideMs>>

\* DELETE /missions/{id}: MissionService.soft_delete
MsDelete ==
    /\ mOps < MaxMsOps
    /\ IF mStatus = "none"
       THEN Respond("delete", 404) /\ UNCHANGED <<mStatus, mAudit>>
       ELSE SetStatus("deleted") /\ Respond("delete", 200)
    /\ UNCHANGED <<mTitle, mGoal, mRunLive, outsideMs>>

\* POST /missions/{id}/start: start_run of routes_runs, as far as the mission
\* is concerned
MsStartRun ==
    /\ mOps < MaxMsOps
    /\ IF mStatus = "none"
       THEN Respond("start", 404) /\ UNCHANGED <<mStatus, mRunLive>>
       ELSE IF mStatus = "deleted"
       THEN Respond("start", 400) /\ UNCHANGED <<mStatus, mRunLive>>
       ELSE /\ mRunLive' = TRUE
            /\ mStatus' = "executing"
            /\ Respond("start", 200)
    /\ UNCHANGED <<mTitle, mGoal, mAudit, outsideMs>>

\* the run loop had its STOP approved: run and mission become completed
MsLoopCompletes ==
    /\ mOps < MaxMsOps
    /\ mRunLive
    /\ mRunLive' = FALSE
    /\ mStatus' = "completed"
    /\ mOps' = mOps + 1
    /\ UNCHANGED <<mTitle, mGoal, mAudit, mResp, outsideMs>>

MissionNext ==
    \/ MsCreate
    \/ MsGet
    \/ MsUpdate
    \/ MsPause
    \/ MsResume
    \/ MsReplay
    \/ MsDelete
    \/ MsStartRun
    \/ MsLoopCompletes

SpecMission == MissionInit /\ [][MissionNext]_vars

\* C25: every step that changes the status, the title or the goal of a
\* mission appends a MissionAudit entry, the change to executing at the start
\* of a run and the change to completed at the end of its loop included.
C25_EveryChangeAudited ==
    [][(mStatus' # mStatus \/ mTitle' # mTitle \/ mGoal' # mGoal)
          => (Len(mAudit') = Len(mAudit) + 1)]_vars

\* C26: the goal of an existing mission changes only while its status is
\* draft or paused; an update of a mission in any other status is rejected
\* and changes neither goal nor title and appends no audit entry.
C26_GoalEditableOnlyDraftOrPaused ==
    /\ [][(mStatus # "none" /\ mGoal' # mGoal) => (mStatus \in {"draft", "paused"})]_vars
    /\ [][(mOps' # mOps /\ mResp'.op = "update" /\ mStatus \notin {"none", "draft", "paused"})
             => (/\ mResp'.code = 404
                 /\ mGoal' = mGoal
                 /\ mTitle' = mTitle
                 /\ mAudit' = mAudit)]_vars

\* an accepted update changed the goal, the mission was started, and an
\* update of the executing mission was rejected
C26_Witness ==
    /\ mStatus = "executing"
    /\ mResp = [op |-> "update", code |-> 404]
    /\ Len(mAudit) = 2
    /\ mAudit[2].action = "UPDATED"
    /\ "goal" \in DOMAIN mAudit[2].new_values
    /\ mGoal = mAudit[2].new_values["goal"][1]

\* C27: fetching a deleted mission by id reports 404; the row is kept with
\* status deleted.
C27_DeletedMissionNotFound ==
    (mStatus = "deleted" /\ mResp # NoValue /\ mResp.op = "get") => mResp.code = 404

\* C40: deleted is an absorbing mission status: once a mission is deleted no
\* request and no run loop changes its status again.
C40_DeletedIsAbsorbing ==
    [][(mStatus = "deleted") => (mStatus' = "deleted")]_vars

(***************************************************************************)
(* WsHub: connect, disconnect and broadcast, with two producers and        *)
(* sockets that may fail or stall                                          *)
(***************************************************************************)
MaxBroadcasts == 3

\* orders in which list(set) may enumerate a set of clients
RECURSIVE Orders(_)
Orders(S) ==
    IF S = {} THEN {<<>>}
    ELSE UNION {{<<s>> \o q : q \in Orders(S \ {s})} : s \in S}

CleanDead_mut_keep(clients, dead) == clients

\* "for ws in dead: await self.disconnect(run_id, ws)"
CleanDead(clients, dead) == clients \ dead

HubInit == HubIdle /\ CoreIdle /\ RhIdle /\ MsIdle /\ CrIdle /\ MemIdle /\ EpIdle

\* ws_run: hub.connect (accept, then add under the lock)
HubConnect(s) ==
    /\ sinkState[s] = "new"
    /\ sinkState' = [sinkState EXCEPT ![s] = "open"]
    /\ hubClients' = hubClients \cup {s}
    /\ UNCHANGED <<bcPc, bcMsg, bcRest, bcDead, hubLog, hubGot, hubRaised, hubEnded,
                   outsideHub>>

\* the peer stops reading: sends to the socket no longer complete
SinkStalls(s) ==
    /\ sinkState[s] = "open"
    /\ sinkState' = [sinkState EXCEPT ![s] = "stalled"]
    /\ UNCHANGED <<hubClients, bcPc, bcMsg, bcRest, bcDead, hubLog, hubGot, hubRaised,
                   hubEnded, outsideHub>>

\* the connection is closed: sends raise from now on
SinkCloses(s) ==
    /\ sinkState[s] \in {"open", "stalled"}
    /\ sinkState' = [sinkState EXCEPT ![s] = "closed"]
    /\ UNCHANGED <<hubClients, bcPc, bcMsg, bcRest, bcDead, hubLog, hubGot, hubRaised,
                   hubEnded, outsideHub>>

\* ws_run: receive_text raised WebSocketDisconnect; hub.disconnect
HubDisconnect(s) ==
    /\ sinkState[s] = "closed"
    /\ s \in hubClients
    /\ hubClients' = hubClients \ {s}
    /\ UNCHANGED <<sinkState, bcPc, bcMsg, bcRest, bcDead, hubLog, hubGot, hubRaised,
                   hubEnded, outsideHub>>

\* broadcast, up to its first send: snapshot of the clients under the lock;
\* returns at once when there are none
BcStart(p) ==
    /\ bcPc[p] = "idle"
    /\ Len(hubLog) < MaxBroadcasts
    /\ LET m == Len(hubLog) + 1
       IN /\ hubLog' = Append(hubLog, [snap |-> hubClients, endedBefore |-> hubEnded])
          /\ bcMsg' = [bcMsg EXCEPT ![p] = m]
          /\ \E order \in Orders(hubClients) : bcRest' = [bcRest EXCEPT ![p] = order]
          /\ bcDead' = [bcDead EXCEPT ![p] = {}]
          /\ IF hubClients = {}
             THEN hubEnded' = hubEnded \cup {m} /\ UNCHANGED bcPc
             ELSE bcPc' = [bcPc EXCEPT ![p] = "sending"] /\ UNCHANGED hubEnded
    /\ UNCHANGED <<hubClients, sinkState, hubGot, hubRaised, outsideHub>>

\* "await ws.send_text(payload)" for the next client of the snapshot returned
\* or raised; after the last client the dead ones are disconnected and
\* broadcast returns
BcSend(p) ==
    /\ bcPc[p] = "sending"
    /\ LET s == Head(bcRest[p])
           m == bcMsg[p]
       IN /\ sinkState[s] # "stalled"
          /\ \E raised \in BOOLEAN :
                /\ sinkState[s] = "closed" => raised
                /\ hubGot' = IF raised THEN hubGot
                             ELSE [hubGot EXCEPT ![s] = @ \cup {m}]
                /\ hubRaised' = IF raised THEN [hubRaised EXCEPT ![s] = @ \cup {m}]
                                ELSE hubRaised
                /\ LET dead == IF raised THEN bcDead[p] \cup {s} ELSE bcDead[p]
                   IN IF Len(bcRest[p]) = 1
                      THEN /\ hubClients' = CleanDead(hubClients, dead)
                           /\ hubEnded' = hubEnded \cup {m}
                           /\ bcPc' = [bcPc EXCEPT ![p] = "idle"]
                           /\ bcDead' = [bcDead EXCEPT ![p] = {}]
                      ELSE /\ bcDead' = [bcDead EXCEPT ![p] = dead]
                           /\ UNCHANGED <<hubClients, hubEnded, bcPc>>
          /\ bcRest' = [bcRest EXCEPT ![p] = Tail(@)]
    /\ UNCHANGED <<sinkState, bcMsg, hubLog, outsideHub>>

HubNext ==
    \/ \E s \in Sinks : HubConnect(s)
    \/ \E s \in Sinks : SinkStalls(s)
    \/ \E s \in Sinks : SinkCloses(s)
    \/ \E s \in Sinks : HubDisconnect(s)
    \/ \E p \in Producers : BcStart(p)
    \/ \E p \in Producers : BcSend(p)

SpecHub == HubInit /\ [][HubNext]_vars

\* C23: a socket whose send raised during a broadcast is out of the
\* subscriber set once that broadcast has returned, gets nothing from any
\* broadcast that begins after that, and every other client of the snapshot
\* was still sent the message.
C23_FailedSinkRemoved ==
    /\ \A s \in Sinks : \A m \in hubRaised[s] :
          /\ m \in hubEnded => s \notin hubClients
          /\ \A m2 \in 1..Len(hubLog) : m \in hubLog[m2].endedBefore => m2 \notin hubGot[s]
    /\ \A m \in hubEnded : \A s \in hubLog[m].snap : m \in hubGot[s] \/ m \in hubRaised[s]

\* a send to ws_1 raised although the socket is open, ws_2 got that message,
\* and a later broadcast reached ws_2 only
C23_Witness ==
    /\ sinkState["ws_1"] = "open"
    /\ 1 \in hubRaised["ws_1"]
    /\ 1 \in hubGot["ws_2"]
    /\ 2 \in hubEnded
    /\ 1 \in hubLog[2].endedBefore
    /\ 2 \in hubGot["ws_2"]
    /\ hubGot["ws_1"] = {}

\* C24: a socket whose send does not complete holds back nobody: no producer
\* waits for it, and no other client of the snapshot waits behind it for the
\* message.
C24_StalledSinkBlocksNobody ==
    \A p \in Producers :
        bcPc[p] = "sending" => sinkState[Head(bcRest[p])] # "stalled"

(***************************************************************************)
(* AgentMemory under record_outcome: the planner's memory already holds    *)
(* some outcomes and further ones are recorded                             *)
(***************************************************************************)
MaxRecords == 3

MemDecisions == {"APPROVED", "DENIED", "NEEDS_REVIEW"}

\* the outcome the k-th call records: an approved move that was executed
RoutineOutcome(k) ==
    [run |-> "run_1", tick |-> k, proposal_intent |-> "MOVE_TO",
     governance_decision |-> "APPROVED", was_executed |-> TRUE]

\* the memory after n routine outcomes were recorded into AgentMemory()
RECURSIVE MemoryAfter(_)
MemoryAfter(n) ==
    IF n = 0 THEN <<>>
    ELSE LET o == RoutineOutcome(n)
         IN record_outcome(MemoryAfter(n - 1), o.run, o.tick, o.proposal_intent,
                           o.governance_decision, o.was_executed)

MemoryInit ==
    /\ \E n \in 0..MaxEntries :
          /\ memEntries = MemoryAfter(n)
          /\ memLog = [k \in 1..n |-> RoutineOutcome(k)]
    /\ memCalls = 0
    /\ CoreIdle /\ RhIdle /\ MsIdle /\ HubIdle /\ CrIdle /\ EpIdle

\* run_service line 287: the loop records the outcome of the tick
MemRecord ==
    /\ memCalls < MaxRecords
    /\ \E d \in MemDecisions :
         LET k == Len(memLog) + 1
             intent == IF d = "APPROVED" THEN "STOP" ELSE "MOVE_TO"
             was_executed == (d = "APPROVED")
         IN /\ memEntries' = record_outcome(memEntries, "run_1", k, intent, d, was_executed)
            /\ memLog' = Append(memLog, [run |-> "run_1", tick |-> k,
                                         proposal_intent |-> intent,
                                         governance_decision |-> d,
                                         was_executed |-> was_executed])
    /\ memCalls' = memCalls + 1
    /\ UNCHANGED outsideMem

MemoryNext == MemRecord

SpecMemory == MemoryInit /\ [][MemoryNext]_vars

\* the last n elements of a sequence
LastN(q, n) == SubSeq(q, Len(q) - n + 1, Len(q))

\* C31: after any sequence of record_outcome calls the memory holds exactly
\* the most recent min(k, 20) of the k recorded outcomes, in recording order.
C31_MemoryIsRecentWindow ==
    memEntries = LastN(memLog, Min(Len(memLog), 20))

\* more than 20 outcomes were recorded and the latest one was not approved
C31_Witness ==
    /\ Len(memLog) > 20
    /\ memCalls > 0
    /\ memLog[Len(memLog)].governance_decision = "DENIED"
    /\ Len(memEntries) = 20

(***************************************************************************)
(* execute_plan of routes_llm: one request, its waypoints sent to the      *)
(* simulator one by one under governance                                   *)
(***************************************************************************)
MaxPlanLen == 3

\* waypoints of the request body: one without max_speed, a fast one, and one
\* outside the geofence
EpWaypoints ==
    {[x |-> 100, y |-> 50],
     [x |-> 100, y |-> 50, max_speed |-> 80],
     [x |-> 500, y |-> 50, max_speed |-> 40]}

\* what get_telemetry may return: the robot in the aisle, or off the map
EpTelemetry == {t \in LoopTelemetry : t.zone = "aisle"}

\* "Build proposal"
EpProposal(wp) ==
    [intent |-> "MOVE_TO",
     params |-> [x |-> wp.x, y |-> wp.y, max_speed |-> Get(wp, "max_speed", 50)]]

ShouldSend_mut_approvedonly(decision) == decision = "APPROVED"

\* "if gov.decision != 'DENIED'"
ShouldSend(decision) == decision # "DENIED"

\* "overall_status = 'blocked' if idx == 0 else 'partial'"
BlockedStatus(idx) == IF idx = 0 THEN "blocked" ELSE "partial"

ExecutionStep(idx, wp, g) ==
    [waypoint_index |-> idx, waypoint |-> wp, governance_decision |-> g.decision,
     policy_state |-> g.policy_state, policy_hits |-> g.policy_hits,
     executed |-> FALSE, telemetry_after |-> <<>>]

ExecuteInit ==
    /\ epWps \in SeqsUpTo(EpWaypoints, MaxPlanLen)
    /\ epIdx = 0
    /\ epPc = IF epWps = <<>> THEN "returned" ELSE "await_telemetry"
    /\ epStep = NoValue
    /\ epSteps = <<>>
    /\ epStatus = "completed"
    /\ epSent = <<>>
    /\ CoreIdle /\ RhIdle /\ MsIdle /\ HubIdle /\ CrIdle /\ MemIdle

\* get_telemetry returned: evaluate the waypoint; a denied one ends the
\* request, any other is handed to send_command
EpGetTelemetry ==
    /\ epPc = "await_telemetry"
    /\ \E t \in EpTelemetry :
         LET wp == epWps[epIdx + 1]
             p == EpProposal(wp)
             g == evaluate_policies(t, p)
             step == ExecutionStep(epIdx, wp, g)
         IN IF ShouldSend(g.decision)
            THEN /\ epSent' = Append(epSent, [index |-> epIdx, waypoint |-> wp,
                                              params |-> p.params])
                 /\ epStep' = step
                 /\ epPc' = "await_send"
                 /\ UNCHANGED <<epSteps, epStatus>>
            ELSE /\ epStatus' = BlockedStatus(epIdx)
                 /\ epSteps' = Append(epSteps, step)
                 /\ epStep' = NoValue
                 /\ epPc' = "returned"
                 /\ UNCHANGED epSent
    /\ UNCHANGED <<epWps, epIdx, outsideEp>>

\* get_telemetry raised: HTTP 502 leaves the handler
EpGetTelemetryFails ==
    /\ epPc = "await_telemetry"
    /\ epPc' = "raised"
    /\ UNCHANGED <<epWps, epIdx, epStep, epSteps, epStatus, epSent, outsideEp>>

\* send_command returned
EpSendReturns ==
    /\ epPc = "await_send"
    /\ epStep' = [epStep EXCEPT !.executed = TRUE]
    /\ epPc' = "await_settle"
    /\ UNCHANGED <<epWps, epIdx, epSteps, epStatus, epSent, outsideEp>>

\* send_command raised
EpSendFails ==
    /\ epPc = "await_send"
    /\ epStatus' = "partial"
    /\ epPc' = "await_settle"
    /\ UNCHANGED <<epWps, epIdx, epStep, epSteps, epSent, outsideEp>>

\* the settle time and the post-execution telemetry (kept when the read
\* succeeds), then the NEEDS_REVIEW note and the next waypoint
EpSettled ==
    /\ epPc = "await_settle"
    /\ \E after \in {<<>>} \cup {<<t>> : t \in EpTelemetry} :
          epSteps' = Append(epSteps, [epStep EXCEPT !.telemetry_after = after])
    /\ epStatus' = IF epStep.governance_decision = "NEEDS_REVIEW" /\ epStatus = "completed"
                   THEN "completed_with_warnings"
                   ELSE epStatus
    /\ epStep' = NoValue
    /\ epIdx' = epIdx + 1
    /\ epPc' = IF epIdx + 1 < Len(epWps) THEN "await_telemetry" ELSE "returned"
    /\ UNCHANGED <<epWps, epSent, outsideEp>>

ExecuteNext ==
    \/ EpGetTelemetry
    \/ EpGetTelemetryFails
    \/ EpSendReturns
    \/ EpSendFails
    \/ EpSettled

SpecExecute == ExecuteInit /\ [][ExecuteNext]_vars

\* C34: execute_plan sends the waypoints in list order and stops at the
\* first DENIED one: no waypoint at or after it is sent, NEEDS_REVIEW
\* waypoints are sent, and the status is blocked when the first waypoint is
\* denied and partial when a later one is.
C34_StopsAtFirstDenied ==
    /\ \A i \in 1..Len(epSent) :
          epSent[i].index = i - 1 /\ epSent[i].waypoint = epWps[i]
    /\ \A k \in 1..Len(epSteps) :
          /\ epSteps[k].governance_decision = "DENIED"
                => /\ k = Len(epSteps)
                   /\ epPc = "returned"
                   /\ \A i \in 1..Len(epSent) : epSent[i].index < k - 1
                   /\ epStatus = IF k = 1 THEN "blocked" ELSE "partial"
          /\ epSteps[k].governance_decision = "NEEDS_REVIEW"
                => \E i \in 1..Len(epSent) : epSent[i].index = k - 1

\* a fast waypoint went out under review, then a later waypoint was denied
C34_Witness ==
    /\ epPc = "returned"
    /\ Len(epSteps) = 3
    /\ epSteps[1].governance_decision = "NEEDS_REVIEW"
    /\ epSteps[1].executed
    /\ epSteps[3].governance_decision = "DENIED"
    /\ Len(epSent) = 2
    /\ epStatus = "partial"

====
